---------------------------- MODULE Spec2Model ----------------------------
(***************************************************************************)
(* Model of airavata_django_portal_sdk/user_storage.py: the per-user file  *)
(* store (_Datastore over django's FileSystemStorage), the replica catalog *)
(* registration (registerDataProduct) and the UserFiles table that maps    *)
(* (username, file_path) to a data product URI.                            *)
(*                                                                         *)
(* Strings are sequences of one-character strings, so that os.path and     *)
(* django's name handling are computed character by character.             *)
(***************************************************************************)
EXTENDS Integers, Sequences, FiniteSets, TLC

\* A local name for a value: K applied to v.
With(v, K(_)) == K(v)
With2(v, w, K(_, _)) == K(v, w)

(***************************************************************************)
(* Strings                                                                 *)
(***************************************************************************)
EMPTY == << >>
SEP == "/"
DOT == "."
\* Python's None where a string is expected.
None == <<"None">>
\* No product URI (productUri is None).
NoUri == 0

\* Characters matched by \w in django.utils.text.get_valid_filename.
WordChars == {"a", "b", "d", "f", "m", "n", "p", "r", "t", "x", "1", "2", "3", "4", "_"}

\* str.rfind as a 1-based index, 0 when c does not occur.
RFind(s, c) ==
    IF \E i \in 1..Len(s) : s[i] = c
    THEN CHOOSE i \in 1..Len(s) : s[i] = c /\ \A j \in (i+1)..Len(s) : s[j] # c
    ELSE 0

\* str.find as a 1-based index, 0 when c does not occur.
Find(s, c) ==
    IF \E i \in 1..Len(s) : s[i] = c
    THEN CHOOSE i \in 1..Len(s) : s[i] = c /\ \A j \in 1..(i-1) : s[j] # c
    ELSE 0

StartsWith(s, p) == Len(p) <= Len(s) /\ SubSeq(s, 1, Len(p)) = p

Drop(s, n) == SubSeq(s, n + 1, Len(s))

RECURSIVE Split(_, _)
\* str.split(c): the segments between occurrences of c (empty ones included).
Split(s, c) ==
    With(Find(s, c), LAMBDA i :
        IF i = 0 THEN <<s>>
        ELSE <<SubSeq(s, 1, i - 1)>> \o Split(Drop(s, i), c))

RECURSIVE JoinWith(_, _)
\* c.join(segs)
JoinWith(segs, c) ==
    IF segs = << >> THEN EMPTY
    ELSE IF Len(segs) = 1 THEN segs[1]
    ELSE segs[1] \o <<c>> \o JoinWith(Tail(segs), c)

RECURSIVE RStrip(_, _)
RStrip(s, c) == IF s # EMPTY /\ s[Len(s)] = c THEN RStrip(SubSeq(s, 1, Len(s) - 1), c) ELSE s

RECURSIVE LStrip(_, _)
LStrip(s, c) == IF s # EMPTY /\ s[1] = c THEN LStrip(Tail(s), c) ELSE s

(***************************************************************************)
(* posixpath                                                               *)
(***************************************************************************)
IsAbs(p) == p # EMPTY /\ p[1] = SEP

\* os.path.join(a, b)
PathJoin(a, b) ==
    IF IsAbs(b) THEN b
    ELSE IF a = EMPTY \/ a[Len(a)] = SEP THEN a \o b
    ELSE a \o <<SEP>> \o b

RECURSIVE NormComps(_, _, _)
\* The loop of posixpath.normpath over the components comps, new_comps so far in acc.
NormComps(comps, acc, initial_slashes) ==
    IF comps = << >> THEN acc
    ELSE IF comps[1] = EMPTY \/ comps[1] = <<DOT>>
         THEN NormComps(Tail(comps), acc, initial_slashes)
    ELSE IF comps[1] # <<DOT, DOT>>
            \/ (initial_slashes = 0 /\ acc = << >>)
            \/ (acc # << >> /\ acc[Len(acc)] = <<DOT, DOT>>)
         THEN NormComps(Tail(comps), Append(acc, comps[1]), initial_slashes)
    ELSE NormComps(Tail(comps),
                   IF acc # << >> THEN SubSeq(acc, 1, Len(acc) - 1) ELSE acc,
                   initial_slashes)

\* The initial slashes posixpath.normpath keeps: two stay two, more are one.
InitialSlashes(path) ==
    IF ~IsAbs(path) THEN 0
    ELSE IF StartsWith(path, <<SEP, SEP>>) /\ ~StartsWith(path, <<SEP, SEP, SEP>>) THEN 2
    ELSE 1

\* posixpath.normpath
NormPath(path) ==
    IF path = EMPTY THEN <<DOT>>
    ELSE With2(InitialSlashes(path), Split(path, SEP), LAMBDA initial_slashes, comps :
            With([i \in 1..initial_slashes |-> SEP]
                     \o JoinWith(NormComps(comps, << >>, initial_slashes), SEP),
                 LAMBDA res : IF res = EMPTY THEN <<DOT>> ELSE res))

\* The working directory of the portal process, for abspath of a relative path.
Cwd == <<SEP>>

\* posixpath.abspath
AbsPath(path) == NormPath(IF IsAbs(path) THEN path ELSE PathJoin(Cwd, path))

\* posixpath.basename
BaseName(p) == Drop(p, RFind(p, SEP))

\* posixpath.dirname
DirName(p) ==
    With(SubSeq(p, 1, RFind(p, SEP)), LAMBDA head :
        IF head # EMPTY /\ \E i \in 1..Len(head) : head[i] # SEP
        THEN RStrip(head, SEP) ELSE head)

\* posixpath.splitext, as <<root, ext>>
SplitExt(p) ==
    With2(RFind(p, SEP), RFind(p, DOT), LAMBDA sepIndex, dotIndex :
        IF dotIndex > sepIndex /\ \E i \in (sepIndex + 1)..(dotIndex - 1) : p[i] # DOT
        THEN <<SubSeq(p, 1, dotIndex - 1), Drop(p, dotIndex - 1)>>
        ELSE <<p, EMPTY>>)

RECURSIVE CommonLen(_, _)
CommonLen(a, b) ==
    IF a # << >> /\ b # << >> /\ a[1] = b[1] THEN 1 + CommonLen(Tail(a), Tail(b)) ELSE 0

NonEmpty(segs) == SelectSeq(segs, LAMBDA seg : seg # EMPTY)

\* posixpath.relpath(path, start)
RelPath(path, start) ==
    With2(NonEmpty(Split(AbsPath(start), SEP)), NonEmpty(Split(AbsPath(path), SEP)),
          LAMBDA start_list, path_list :
        With(CommonLen(start_list, path_list), LAMBDA i :
            With([k \in 1..(Len(start_list) - i) |-> <<DOT, DOT>>] \o Drop(path_list, i),
                 LAMBDA rel_list :
                    IF rel_list = << >> THEN <<DOT>> ELSE JoinWith(rel_list, SEP))))

(***************************************************************************)
(* Exceptions and results.  An operation returns [exc, val, fs]: exc is    *)
(* NoExc when it returned val, else the exception that propagated; fs is   *)
(* the filesystem it left behind in either case.  A function that does not *)
(* touch the filesystem returns [exc, val].                                *)
(***************************************************************************)
NoExc == "NoExc"
SuspiciousFileOperation == "SuspiciousFileOperation"
ObjectDoesNotExist == "ObjectDoesNotExist"
FileExistsError == "FileExistsError"
FileNotFoundError == "FileNotFoundError"
IsADirectoryError == "IsADirectoryError"
DatabaseError == "DatabaseError"
DirectoryExists == "Exception: Directory already exists"

Ret(v, f) == [exc |-> NoExc, val |-> v, fs |-> f]
Raise(e, f) == [exc |-> e, val |-> None, fs |-> f]
Pure(v) == [exc |-> NoExc, val |-> v]
PureRaise(e) == [exc |-> e, val |-> None]

\* d's exception propagates, leaving filesystem f; else K goes on with d's value.
Try(d, f, K(_)) == IF d.exc # NoExc THEN Raise(d.exc, f) ELSE K(d.val)
\* The same where K answers [exc, val].
TryPure(d, K(_)) == IF d.exc # NoExc THEN d ELSE K(d.val)
\* d's exception propagates with the filesystem d left; else K goes on with d.
Then(d, K(_)) == IF d.exc # NoExc THEN d ELSE K(d)

(***************************************************************************)
(* The filesystem: a function from absolute path to node.  A directory is  *)
(* [kind |-> "dir", data |-> 0], a regular file [kind |-> "file", data |-> *)
(* its bytes]; the bytes are a number, odd when they decode as text.       *)
(***************************************************************************)
DirNode == [kind |-> "dir", data |-> 0]
FileNode(d) == [kind |-> "file", data |-> d]

OsExists(f, p) == p \in DOMAIN f
IsFile(f, p) == p \in DOMAIN f /\ f[p].kind = "file"
IsDir(f, p) == p \in DOMAIN f /\ f[p].kind = "dir"

RECURSIVE Ancestors(_)
\* p and every directory above it, p absolute and normalised.
Ancestors(p) == IF p = <<SEP>> \/ p = EMPTY THEN {<<SEP>>} ELSE {p} \cup Ancestors(DirName(p))

Under(p, d) == p # d /\ StartsWith(p, IF d = <<SEP>> THEN d ELSE d \o <<SEP>>)

\* os.makedirs(p): p and the missing directories above it.
OsMakedirs(f, p) ==
    With({a \in Ancestors(p) : a \notin DOMAIN f}, LAMBDA new :
        [q \in DOMAIN f \cup new |-> IF q \in new THEN DirNode ELSE f[q]])

\* A regular file with bytes d at p (created or replaced).
OsWrite(f, p, d) == [q \in DOMAIN f \cup {p} |-> IF q = p THEN FileNode(d) ELSE f[q]]

\* os.remove(p)
OsRemove(f, p) == [q \in DOMAIN f \ {p} |-> f[q]]

\* shutil.rmtree(p)
RmTree(f, p) == [q \in {e \in DOMAIN f : e # p /\ ~Under(e, p)} |-> f[q]]

(***************************************************************************)
(* django.utils._os.safe_join, django.utils.text.get_valid_filename        *)
(***************************************************************************)
\* safe_join that compares with base_path without the separator after it.
SafeJoinPrefix(base, path) ==
    With2(AbsPath(PathJoin(base, path)), AbsPath(base), LAMBDA final_path, base_path :
        IF ~StartsWith(final_path, base_path)
           /\ DirName(base_path) # base_path
        THEN PureRaise(SuspiciousFileOperation)
        ELSE Pure(final_path))

\* safe_join(base, path): the path joined and made absolute, refused when it
\* is neither base nor below base (unless base is the filesystem root).
SafeJoin(base, path) ==
    With2(AbsPath(PathJoin(base, path)), AbsPath(base), LAMBDA final_path, base_path :
        IF ~StartsWith(final_path, base_path \o <<SEP>>)
           /\ final_path # base_path
           /\ DirName(base_path) # base_path
        THEN PureRaise(SuspiciousFileOperation)
        ELSE Pure(final_path))

RECURSIVE KeepValid(_)
KeepValid(s) ==
    IF s = EMPTY THEN EMPTY
    ELSE IF s[1] \in WordChars \cup {"-", DOT} THEN <<s[1]>> \o KeepValid(Tail(s))
    ELSE KeepValid(Tail(s))

\* get_valid_filename: strip, spaces to underscores, drop all but [-\w.]
GetValidFilename(name) ==
    With(RStrip(LStrip(name, " "), " "), LAMBDA stripped :
        KeepValid([i \in 1..Len(stripped) |-> IF stripped[i] = " " THEN "_" ELSE stripped[i]]))

(***************************************************************************)
(* django.core.files.storage.FileSystemStorage(location)                   *)
(***************************************************************************)
\* FileSystemStorage.path(name): [exc, val]
StoragePath(location, name) == SafeJoin(AbsPath(location), name)

\* FileSystemStorage.exists(name): [exc, val]
StorageExists(f, location, name) ==
    TryPure(StoragePath(location, name), LAMBDA p : Pure(OsExists(f, p)))

\* Storage.get_alternative_name(file_root, file_ext) with random string r
GetAlternativeName(file_root, file_ext, r) == file_root \o <<"_">> \o r \o file_ext

\* An alternative name without the directory of name.
AlternativeToBare(name, r) ==
    With(SplitExt(BaseName(name)), LAMBDA ext : GetAlternativeName(ext[1], ext[2], r))

\* The name get_available_name tries once name is found taken.
AlternativeTo(name, r) ==
    With(SplitExt(BaseName(name)), LAMBDA ext :
        PathJoin(DirName(name), GetAlternativeName(ext[1], ext[2], r)))

\* get_available_name that answers name without looking whether it is taken.
GetAvailableNameUnchecked(f, location, name, r) ==
    TryPure(StoragePath(location, name), LAMBDA p : Pure(name))

\* Storage.get_available_name(name): name when nothing exists there, else the
\* alternative name made with r, the random string of the loop's last round.
\* [exc, val]; the loop ends with r only when r is in LastDraws.
GetAvailableName(f, location, name, r) ==
    TryPure(StorageExists(f, location, name), LAMBDA taken :
        Pure(IF taken THEN AlternativeTo(name, r) ELSE name))

\* The random strings the last round of that loop can have drawn: those
\* whose alternative name is not taken.  Nothing is drawn when name is free
\* (or refused), and r is then not used.
LastDraws(f, location, name, randoms) ==
    With(StorageExists(f, location, name), LAMBDA e :
        IF e.exc = NoExc /\ e.val
        THEN {r \in randoms : ~OsExists(f, StoragePath(location, AlternativeTo(name, r)).val)}
        ELSE {CHOOSE r \in randoms : TRUE})

\* FileSystemStorage._save(name, content): the directories above name are
\* made, the file is created exclusively (O_CREAT | O_EXCL) and written.  When
\* something is at name, _save asks get_available_name again and retries; run
\* without interruption that happens only if get_available_name answers a
\* taken name, and the save then never ends: FileExistsError stands for it.
\* (A file with temporary_file_path is moved to name by file_move_safe
\* instead; run without interruption the result is the same.)
StorageWrite(f, location, name, data) ==
    Try(StoragePath(location, name), f, LAMBDA p :
        IF \E a \in Ancestors(DirName(p)) : IsFile(f, a) THEN Raise(FileExistsError, f)
        ELSE IF OsExists(f, p) THEN Raise(FileExistsError, f)
        ELSE Ret(name, OsWrite(OsMakedirs(f, DirName(p)), p, data)))

\* Storage.save(name, content): get_available_name, then _save.
StorageSave(f, location, name, data, r) ==
    Try(GetAvailableName(f, location, name, r), f, LAMBDA available :
        StorageWrite(f, location, available, data))

\* delete that removes the directory the file is in.
StorageDeleteTree(f, location, name) ==
    Try(StoragePath(location, name), f, LAMBDA p : Ret(None, RmTree(f, DirName(p))))

\* FileSystemStorage.delete(name) of a regular file
StorageDelete(f, location, name) ==
    Try(StoragePath(location, name), f, LAMBDA p :
        Ret(None, IF OsExists(f, p) THEN OsRemove(f, p) ELSE f))

\* The names of the entries of directory p that satisfy Is.
EntryNames(f, p, Is(_, _)) ==
    {BaseName(q) : q \in {e \in DOMAIN f : e # <<SEP>> /\ e # p /\ DirName(e) = p /\ Is(f, e)}}

\* FileSystemStorage.listdir(path): <<directory names, file names>>, as sets
StorageListdir(f, location, path) ==
    Try(StoragePath(location, path), f, LAMBDA p :
        IF ~IsDir(f, p) THEN Raise(FileNotFoundError, f)
        ELSE Ret(<<EntryNames(f, p, IsDir), EntryNames(f, p, IsFile)>>, f))

(***************************************************************************)
(* django.core.files.move.file_move_safe(old, new), allow_overwrite False  *)
(***************************************************************************)
\* os.rename(old, new) succeeds: old exists, new's directory exists, and a
\* file is not renamed onto a directory or a directory onto a file.
RenameOk(f, old, new) ==
    /\ OsExists(f, old)
    /\ IsDir(f, DirName(new))
    /\ (OsExists(f, new) => f[new].kind = f[old].kind)

\* os.rename(old, new): old, with what is below it, is at new afterwards.
OsRename(f, old, new) ==
    [q \in {e \in DOMAIN f : ~(e = old \/ Under(e, old)) /\ ~(e = new \/ Under(e, new))}
            \cup {new \o Drop(g, Len(old)) : g \in {e \in DOMAIN f : e = old \/ Under(e, old)}}
        |-> IF q = new \/ Under(q, new) THEN f[old \o Drop(q, Len(new))] ELSE f[q]]

\* The fallback of file_move_safe: read old, create new exclusively, copy,
\* remove old.
MoveByCopy(f, old, new) ==
    IF ~OsExists(f, old) THEN Raise(FileNotFoundError, f)
    ELSE IF IsDir(f, old) THEN Raise(IsADirectoryError, f)
    ELSE IF OsExists(f, new) THEN Raise(FileExistsError, f)
    ELSE IF ~IsDir(f, DirName(new)) THEN Raise(FileNotFoundError, f)
    ELSE Ret(None, OsRemove(OsWrite(f, new, f[old].data), old))

\* file_move_safe run without interruption: nothing to do for the same file;
\* os.rename when os.access finds nothing at new and the rename succeeds; the
\* copying fallback otherwise.
FileMoveSafe(f, old, new) ==
    IF old = new /\ OsExists(f, old) THEN Ret(None, f)
    ELSE IF ~OsExists(f, new) /\ RenameOk(f, old, new)
         THEN Ret(None, OsRename(f, old, new))
    ELSE MoveByCopy(f, old, new)

(***************************************************************************)
(* Settings and module constants                                           *)
(***************************************************************************)
TMP_INPUT_FILE_UPLOAD_DIR == <<"t", "m", "p">>
GATEWAY_DATA_STORE_DIR == <<SEP, "d">>
GATEWAY_DATA_STORE_HOSTNAME == <<"h">>
GATEWAY_DATA_STORE == "GATEWAY_DATA_STORE"

(***************************************************************************)
(* class _Datastore                                                        *)
(***************************************************************************)
\* A storage location that is the same for every user.
UserLocationShared(username) == GATEWAY_DATA_STORE_DIR

\* _Datastore._user_data_storage(username): the storage's location
UserLocation(username) == PathJoin(GATEWAY_DATA_STORE_DIR, username)

\* _Datastore.path(username, file_path): [exc, val]
DsPath(username, file_path) == StoragePath(UserLocation(username), file_path)

\* _Datastore.exists
DsExists(f, username, path) ==
    With(DsPath(username, path), LAMBDA p :
        IF p.exc = SuspiciousFileOperation THEN FALSE
        ELSE OsExists(f, p.val) /\ IsFile(f, p.val))

\* dir_exists that joins path to the root and looks, without the check that
\* the place lies in the root.
DsDirExistsUnconfined(f, username, path) ==
    IsDir(f, AbsPath(PathJoin(UserLocation(username), path)))

\* _Datastore.dir_exists
DsDirExists(f, username, path) ==
    With(DsPath(username, path), LAMBDA p :
        IF p.exc = SuspiciousFileOperation THEN FALSE
        ELSE OsExists(f, p.val) /\ IsDir(f, p.val))

\* _Datastore.open: val is the bytes the returned file object reads
DsOpen(f, username, path) ==
    IF DsExists(f, username, path)
    THEN Ret(f[DsPath(username, path).val].data, f)
    ELSE Raise(ObjectDoesNotExist, f)

\* _Datastore.save(username, path, file, name)
DsSave(f, username, path, file, name, r) ==
    Then(StorageSave(f, UserLocation(username),
                     PathJoin(path, GetValidFilename(
                         IF name # None THEN name ELSE BaseName(file.name))),
                     file.data, r),
         LAMBDA input_file : Ret(DsPath(username, input_file.val).val, input_file.fs))

\* _Datastore._makedirs
DsMakedirs(f, username, dir_path) ==
    Try(DsPath(username, dir_path), f, LAMBDA full_path :
        IF OsExists(f, full_path) THEN Raise(FileExistsError, f)
        ELSE Ret(None, OsMakedirs(f, full_path)))

\* _Datastore.create_user_dir
DsCreateUserDir(f, username, path) ==
    Try(StorageExists(f, UserLocation(username), path), f, LAMBDA there :
        IF ~there THEN DsMakedirs(f, username, path)
        ELSE Raise(DirectoryExists, f))

\* _Datastore.move
DsMove(f, source_username, source_path, target_username, target_dir, file_name, r) ==
    Try(DsPath(source_username, source_path), f, LAMBDA source_full_path :
    Try(GetAvailableName(f, UserLocation(target_username),
                         PathJoin(target_dir, GetValidFilename(file_name)), r),
        f, LAMBDA target_path :
    Try(DsPath(target_username, target_path), f, LAMBDA target_full_path :
    Then(FileMoveSafe(f, source_full_path, target_full_path),
         LAMBDA moved : Ret(target_full_path, moved.fs)))))

\* _Datastore.move_external
DsMoveExternal(f, external_path, target_username, target_dir, file_name, r) ==
    Try(GetAvailableName(f, UserLocation(target_username),
                         PathJoin(target_dir, GetValidFilename(file_name)), r),
        f, LAMBDA target_path :
    Then(IF ~DsDirExists(f, target_username, target_dir)
         THEN DsCreateUserDir(f, target_username, target_dir)
         ELSE Ret(None, f),
         LAMBDA made :
    Try(DsPath(target_username, target_path), made.fs, LAMBDA target_full_path :
    Then(FileMoveSafe(made.fs, external_path, target_full_path),
         LAMBDA moved : Ret(target_full_path, moved.fs)))))

\* _Datastore.copy
DsCopy(f, source_username, source_path, target_username, target_path, name, r) ==
    Then(DsOpen(f, source_username, source_path), LAMBDA opened :
        DsSave(f, target_username, target_path,
               [name |-> DsPath(source_username, source_path).val, data |-> opened.val],
               name, r))

\* _Datastore.delete
DsDelete(f, username, path) ==
    IF DsExists(f, username, path)
    THEN StorageDelete(f, UserLocation(username), path)
    ELSE Raise(ObjectDoesNotExist, f)

\* _Datastore.delete_dir
DsDeleteDir(f, username, path) ==
    IF DsDirExists(f, username, path)
    THEN Ret(None, RmTree(f, DsPath(username, path).val))
    ELSE Raise(ObjectDoesNotExist, f)

\* _Datastore.rel_path
DsRelPath(username, file_path) ==
    RelPath(DsPath(username, file_path).val, DsPath(username, EMPTY).val)

\* _Datastore.list_user_dir
DsListUserDir(f, username, file_path) == StorageListdir(f, UserLocation(username), file_path)

\* The end of get_experiment_dir without the look whether experiment_dir
\* exists.
DsEnsureDirAlways(f, username, experiment_dir) ==
    Then(DsMakedirs(f, username, experiment_dir), LAMBDA made : Ret(experiment_dir, made.fs))

\* The end of _Datastore.get_experiment_dir: experiment_dir is made unless
\* something exists there, and returned.
DsEnsureDir(f, username, experiment_dir) ==
    Try(StorageExists(f, UserLocation(username), experiment_dir), f, LAMBDA there :
        IF there THEN Ret(experiment_dir, f)
        ELSE Then(DsMakedirs(f, username, experiment_dir),
                  LAMBDA made : Ret(experiment_dir, made.fs)))

\* _Datastore.get_experiment_dir with a path
DsExperimentDirAt(f, username, path) ==
    Try(DsPath(username, path), f, LAMBDA experiment_dir :
        DsEnsureDir(f, username, experiment_dir))

\* get_experiment_dir that takes the experiment's name as it is, without
\* asking for an available one.
DsExperimentDirReused(f, username, project_name, experiment_name, r) ==
    DsExperimentDirAt(f, username,
                      PathJoin(GetValidFilename(project_name),
                               GetValidFilename(experiment_name)))

\* _Datastore.get_experiment_dir with path None: the project directory is
\* made unless it exists, and an available name below it is taken.
DsExperimentDirNamed(f, username, project_name, experiment_name, r) ==
    With(GetValidFilename(project_name), LAMBDA proj_dir_name :
    Try(StorageExists(f, UserLocation(username), proj_dir_name), f, LAMBDA there :
    Then(IF there THEN Ret(None, f) ELSE DsMakedirs(f, username, proj_dir_name),
         LAMBDA proj :
    Try(GetAvailableName(proj.fs, UserLocation(username),
                         PathJoin(proj_dir_name, GetValidFilename(experiment_name)), r),
        proj.fs, LAMBDA experiment_dir_name :
    Try(DsPath(username, experiment_dir_name), proj.fs, LAMBDA experiment_dir :
        DsEnsureDir(proj.fs, username, experiment_dir))))))

(***************************************************************************)
(* Data products and replica locations                                     *)
(***************************************************************************)
FileScheme == <<"f", "i", "l", "e", ":", SEP, SEP>>

\* _create_replica_location
CreateReplicaLocation(full_path, file_name) ==
    [replicaLocationCategory |-> GATEWAY_DATA_STORE,
     replicaPersistentType |-> "TRANSIENT",
     filePath |-> FileScheme \o GATEWAY_DATA_STORE_HOSTNAME \o <<":">> \o full_path]

\* The start of s, before the first of the characters in stops.
UpTo(s, stops) ==
    IF \E i \in 1..Len(s) : s[i] \in stops
    THEN SubSeq(s, 1, (CHOOSE i \in 1..Len(s) :
                          s[i] \in stops /\ \A j \in 1..(i-1) : s[j] \notin stops) - 1)
    ELSE s

\* What urlparse leaves after the netloc of s, s being the URL after "scheme:".
AfterNetloc(s) ==
    IF StartsWith(s, <<SEP, SEP>>)
    THEN Drop(s, 2 + Len(UpTo(Drop(s, 2), {SEP, "?", "#"})))
    ELSE s

\* urllib.parse.urlparse(url).path for a URL with a scheme
UrlParsePath(url) == UpTo(AfterNetloc(Drop(url, Find(url, ":"))), {"?", "#", ";"})

\* _get_replica_filepath
GetReplicaFilepath(data_product) ==
    With(SelectSeq(data_product.replicaLocations,
                   LAMBDA rep : rep.replicaLocationCategory = GATEWAY_DATA_STORE),
         LAMBDA replica_filepaths :
            IF Len(replica_filepaths) > 0 /\ replica_filepaths[1].filePath # EMPTY
            THEN UrlParsePath(replica_filepaths[1].filePath) ELSE None)

TextPlain == <<"text/plain">>
OctetStream == <<"application/octet-stream">>
ImagePng == <<"image/png">>

\* mimetypes.guess_type(full_path)[0], by the extension
GuessType(full_path) ==
    With(SplitExt(full_path)[2], LAMBDA ext :
        IF ext = <<DOT, "t">> THEN TextPlain
        ELSE IF ext = <<DOT, "b">> THEN OctetStream
        ELSE IF ext = <<DOT, "p">> THEN ImagePng
        ELSE None)

\* open(full_path, "r").read(1024) raises no UnicodeDecodeError
ReadsAsText(f, full_path) == f[full_path].data % 2 = 1

\* _determine_content_type that reads the file only when no content_type was
\* passed, and answers None when the read fails.
DetermineContentTypeUnlessGiven(f, full_path, content_type) ==
    IF content_type # None THEN content_type
    ELSE With(GuessType(full_path), LAMBDA guessed_type :
            IF guessed_type = None \/ guessed_type = OctetStream
            THEN IF ReadsAsText(f, full_path) THEN TextPlain ELSE None
            ELSE guessed_type)

\* _determine_content_type
DetermineContentType(f, full_path, content_type) ==
    With(IF content_type = None THEN GuessType(full_path) ELSE content_type, LAMBDA result :
        IF result = None \/ result = OctetStream
        THEN IF ReadsAsText(f, full_path) THEN TextPlain ELSE result
        ELSE result)

\* _create_data_product.  shares names the attributes whose value is an
\* object the data product has in common with the one it was copied from:
\* none for a new one.
CreateDataProduct(f, username, full_path, name, content_type) ==
    [productUri |-> NoUri,
     shares |-> {},
     ownerName |-> username,
     productName |-> IF name # None THEN name ELSE BaseName(full_path),
     productMetadata |-> DetermineContentType(f, full_path, content_type),
     replicaLocations |-> <<CreateReplicaLocation(
         full_path, IF name # None THEN name ELSE BaseName(full_path))>>]

\* _copy_data_product: copy.copy gives an object whose attributes are the
\* very values of data_product's; three are then set anew, and of the rest
\* productMetadata is an object that can be changed, when it is set.
CopyDataProduct(username, data_product, full_path) ==
    [data_product EXCEPT
        !.shares = IF data_product.productMetadata # None
                   THEN {"productMetadata"} ELSE {},
        !.productUri = NoUri,
        !.ownerName = username,
        !.replicaLocations = <<CreateReplicaLocation(full_path, data_product.productName)>>]

(***************************************************************************)
(* Bounds and inputs                                                       *)
(***************************************************************************)
\* Calls of the public functions in one run.
MaxOps == 3
\* Random strings get_alternative_name can draw.
NumRandom == 2

RandomChars == <<"1", "2", "3", "4">>
RandomStrings == {<<RandomChars[i]>> : i \in 1..NumRandom}

Users == {<<"a">>, <<"b">>}
\* Directories callers name, relative to the user's root.
ResultsDir == <<"r">>
UserDirs == {TMP_INPUT_FILE_UPLOAD_DIR, ResultsDir}
\* A directory argument that leaves the root of the calling user.
EscapingDir == <<DOT, DOT, SEP, "b", SEP, "r">>
\* Uploads, as <<file, name>>: the file object (its name and its bytes) and
\* the name argument of save and save_input_file.
Uploads == {<<[name |-> <<"x", SEP, "n", DOT, "t">>, data |-> 1], None>>,
            <<[name |-> <<"n", DOT, "t">>, data |-> 2], None>>,
            <<[name |-> <<"n", DOT, "t">>, data |-> 2], <<"n", "#", DOT, "t">>>>}
\* A file outside the data store, for move_from_filepath.
ExternalDir == <<SEP, "x">>
ExternalFile == <<SEP, "x", SEP, "n", DOT, "t">>

(***************************************************************************)
(* State                                                                   *)
(***************************************************************************)
VARIABLES
    fs,         \* the filesystem
    catalog,    \* the replica catalog: the registered data products, the
                \* product URI of catalog[i] being i
    userFiles,  \* the UserFiles table: rows [username, file_path, file_dpu]
    opCount,    \* calls made so far
    last,       \* the last call: its name, arguments, exception and result
    saved,      \* the files save() returned and nothing has removed since
    run,        \* the results of the current run of save() calls with the
                \* same user, directory and name
    procs,      \* the calls in progress when two requests are served at once
    alone       \* for each user, the state the calls of that user alone
                \* would have made

vars == <<fs, catalog, userFiles, opCount, last, saved, run, procs, alone>>

\* The part of the state the public functions work on.
St == [fs |-> fs, catalog |-> catalog, userFiles |-> userFiles]

Out(e, v, s) == [exc |-> e, val |-> v, st |-> s]

\* The filesystem step d of a public function on state s: its exception
\* propagates, else K goes on with its result and the state it left.
AfterFs(d, s, K(_, _)) ==
    IF d.exc # NoExc THEN Out(d.exc, None, [s EXCEPT !.fs = d.fs])
    ELSE K(d.val, [s EXCEPT !.fs = d.fs])

(***************************************************************************)
(* The catalog bridge                                                      *)
(***************************************************************************)
\* airavata_client.registerDataProduct: the catalog stores data_product under
\* a new product URI, the next number.
CatalogWith(cat, data_product) ==
    Append(cat, [data_product EXCEPT !.productUri = Len(cat) + 1])

\* models.UserFiles(username, file_path, file_dpu).save()
UserFilesWith(rows, username, full_path, product_uri) ==
    rows \cup {[username |-> username, file_path |-> full_path, file_dpu |-> product_uri]}

\* _register_data_product: registerDataProduct answers a new product URI,
\* then a UserFiles row is saved.  val is the data product with that URI,
\* as the callers set it.
RegisterDataProduct(s, username, full_path, data_product) ==
    With(Len(s.catalog) + 1, LAMBDA product_uri :
        Out(NoExc, [data_product EXCEPT !.productUri = product_uri],
            [s EXCEPT
                !.catalog = CatalogWith(@, data_product),
                !.userFiles = UserFilesWith(@, username, full_path, product_uri)]))

\* _save_data_product
SaveDataProduct(s, username, full_path, name, content_type) ==
    RegisterDataProduct(s, username, full_path,
        CreateDataProduct(s.fs, username, full_path, name, content_type))

\* _save_copy_of_data_product
SaveCopyOfDataProduct(s, username, full_path, data_product) ==
    RegisterDataProduct(s, username, full_path,
        CopyDataProduct(username, data_product, full_path))

\* _delete_data_product that leaves the rows.
DeleteDataProductKeeps(s, username, full_path) == s

\* _delete_data_product
DeleteDataProduct(s, username, full_path) ==
    [s EXCEPT !.userFiles =
        {row \in @ : ~(row.username = username /\ row.file_path = full_path)}]

UserFileRows(s, username, full_path) ==
    {row \in s.userFiles : row.username = username /\ row.file_path = full_path}

\* user_file[0]: the row saved first.
FirstRow(rows) == CHOOSE row \in rows : \A o \in rows : row.file_dpu <= o.file_dpu

\* _get_data_product_uri that registers the file whether it has a row or not.
GetDataProductUriAlways(s, username, full_path) ==
    With(SaveDataProduct(s, username, full_path, None, None), LAMBDA d :
        Out(NoExc, d.val.productUri, d.st))

\* _get_data_product_uri: the URI of the first row found, else the file is
\* registered now.
GetDataProductUri(s, username, full_path) ==
    With(UserFileRows(s, username, full_path), LAMBDA user_file :
        IF user_file # {}
        THEN Out(NoExc, FirstRow(user_file).file_dpu, s)
        ELSE With(SaveDataProduct(s, username, full_path, None, None), LAMBDA d :
                Out(NoExc, d.val.productUri, d.st)))

(***************************************************************************)
(* The public functions, as functions of the state                         *)
(***************************************************************************)
\* save(request, path, file, name, content_type)
SaveFile(s, username, path, file, name, content_type, r) ==
    AfterFs(DsSave(s.fs, username, path, file, name, r), s, LAMBDA full_path, s1 :
        SaveDataProduct(s1, username, full_path, name, content_type))

\* move_from_filepath(request, source_path, target_path, name, content_type)
MoveFromFilepath(s, username, source_path, target_path, name, content_type, r) ==
    With(IF name # None THEN name ELSE BaseName(source_path), LAMBDA file_name :
        AfterFs(DsMoveExternal(s.fs, source_path, username, target_path, file_name, r), s,
                LAMBDA full_path, s1 :
                    SaveDataProduct(s1, username, full_path, file_name, content_type)))

\* save_input_file(request, file, name, content_type)
SaveInputFile(s, username, file, name, content_type, r) ==
    AfterFs(DsSave(s.fs, username, TMP_INPUT_FILE_UPLOAD_DIR, file, None, r), s,
            LAMBDA full_path, s1 :
                SaveDataProduct(s1, username, full_path,
                                IF name # None THEN name ELSE BaseName(file.name),
                                content_type))

\* copy_input_file(request, data_product)
CopyInputFile(s, username, data_product, r) ==
    AfterFs(DsCopy(s.fs, data_product.ownerName, GetReplicaFilepath(data_product), username,
                   TMP_INPUT_FILE_UPLOAD_DIR, data_product.productName, r), s,
            LAMBDA full_path, s1 :
                SaveCopyOfDataProduct(s1, username, full_path, data_product))

\* is_input_file that does not look at the directory.
IsInputFileAnywhere(s, username, data_product) ==
    DsExists(s.fs, username, GetReplicaFilepath(data_product))

\* is_input_file that looks in the root of the owner of data_product.
IsInputFileOfOwner(s, username, data_product) ==
    With2(data_product.ownerName, GetReplicaFilepath(data_product), LAMBDA owner, path :
        IF DsExists(s.fs, owner, path)
        THEN DirName(DsRelPath(owner, path)) = TMP_INPUT_FILE_UPLOAD_DIR
        ELSE FALSE)

\* is_input_file(request, data_product)
IsInputFile(s, username, data_product) ==
    With(GetReplicaFilepath(data_product), LAMBDA path :
        IF DsExists(s.fs, username, path)
        THEN DirName(DsRelPath(username, path)) = TMP_INPUT_FILE_UPLOAD_DIR
        ELSE FALSE)

\* move_input_file that registers the copy under the URI it had: the copy is
\* not made a new record.
MoveInputFileSameRecord(s, username, data_product, path, r) ==
    With(GetReplicaFilepath(data_product), LAMBDA source_path :
        AfterFs(DsMove(s.fs, data_product.ownerName, source_path, username, path,
                       data_product.productName, r), s,
                LAMBDA full_path, s1 :
                    Out(NoExc,
                        [CopyDataProduct(username, data_product, full_path)
                            EXCEPT !.productUri = data_product.productUri],
                        [DeleteDataProduct(s1, data_product.ownerName, source_path)
                            EXCEPT !.userFiles = UserFilesWith(@, username, full_path,
                                                               data_product.productUri)])))

\* move_input_file(request, data_product, path)
MoveInputFile(s, username, data_product, path, r) ==
    With(GetReplicaFilepath(data_product), LAMBDA source_path :
        AfterFs(DsMove(s.fs, data_product.ownerName, source_path, username, path,
                       data_product.productName, r), s,
                LAMBDA full_path, s1 :
                    SaveCopyOfDataProduct(
                        DeleteDataProduct(s1, data_product.ownerName, source_path),
                        username, full_path, data_product)))

\* open_file(request, data_product): val is the bytes read
OpenFile(s, data_product) ==
    With(DsOpen(s.fs, data_product.ownerName, GetReplicaFilepath(data_product)), LAMBDA d :
        Out(d.exc, d.val, s))

\* delete_dir(request, path)
DeleteDir(s, username, path) ==
    AfterFs(DsDeleteDir(s.fs, username, path), s, LAMBDA v, s1 : Out(NoExc, None, s1))

\* delete(request, data_product)
DeleteFile(s, data_product) ==
    With(GetReplicaFilepath(data_product), LAMBDA path :
        AfterFs(DsDelete(s.fs, data_product.ownerName, path), s, LAMBDA v, s1 :
            Out(NoExc, None, DeleteDataProduct(s1, data_product.ownerName, path))))

\* _delete_data_product when the database can fail: db_error says that the
\* query raises, and no row is then deleted.
DeleteDataProductDb(s, username, full_path, db_error) ==
    IF db_error THEN Out(DatabaseError, None, s)
    ELSE Out(NoExc, None, DeleteDataProduct(s, username, full_path))

\* delete that removes the rows first and then the file.
DeleteFileRowsFirst(s, data_product, db_error) ==
    With(GetReplicaFilepath(data_product), LAMBDA path :
        With(DeleteDataProductDb(s, data_product.ownerName, path, db_error), LAMBDA u :
            IF u.exc # NoExc THEN u
            ELSE AfterFs(DsDelete(u.st.fs, data_product.ownerName, path), u.st,
                         LAMBDA v, s1 : Out(NoExc, None, s1))))

\* delete(request, data_product) when the database can fail: what is raised
\* by either step is logged and raised again.
DeleteFileDb(s, data_product, db_error) ==
    With(GetReplicaFilepath(data_product), LAMBDA path :
        AfterFs(DsDelete(s.fs, data_product.ownerName, path), s, LAMBDA v, s1 :
            DeleteDataProductDb(s1, data_product.ownerName, path, db_error)))

\* user_file_exists(request, path): val is the product URI, NoUri for None
UserFileExists(s, username, path) ==
    IF DsExists(s.fs, username, path)
    THEN GetDataProductUri(s, username, DsPath(username, path).val)
    ELSE Out(NoExc, NoUri, s)

\* get_experiment_dir(request, project_name, experiment_name): path is None
GetExperimentDirNamed(s, username, project_name, experiment_name, r) ==
    AfterFs(DsExperimentDirNamed(s.fs, username, project_name, experiment_name, r), s,
            LAMBDA experiment_dir, s1 : Out(NoExc, experiment_dir, s1))

\* get_experiment_dir(request, path=path)
GetExperimentDirAt(s, username, path) ==
    AfterFs(DsExperimentDirAt(s.fs, username, path), s,
            LAMBDA experiment_dir, s1 : Out(NoExc, experiment_dir, s1))

\* create_user_dir(request, path)
CreateUserDir(s, username, path) ==
    AfterFs(DsCreateUserDir(s.fs, username, path), s, LAMBDA v, s1 : Out(NoExc, None, s1))

\* The orders in which a directory scan can yield the names in S.
Orders(S) == {o \in [1..Cardinality(S) -> S] : \A i, j \in DOMAIN o : o[i] = o[j] => i = j}

\* One round of the loop of listdir over the files: file f, files_data and
\* state so far in acc.
ListFile(acc, username, path, f) ==
    With(PathJoin(path, f), LAMBDA user_rel_path :
        With(GetDataProductUri(acc.st, username, DsPath(username, user_rel_path).val),
             LAMBDA u :
                Out(NoExc,
                    acc.val \cup {[name |-> f, path |-> user_rel_path,
                                   data_product_uri |-> u.val, hidden |-> FALSE]},
                    u.st)))

RECURSIVE ListFiles(_, _, _, _)
\* The loop of listdir over the files, in the order the scan gave them.
ListFiles(acc, username, path, files) ==
    IF files = << >> THEN acc
    ELSE ListFiles(ListFile(acc, username, path, files[1]), username, path, Tail(files))

\* directories_data of listdir
DirectoriesData(path, directories) ==
    {[name |-> d, path |-> PathJoin(path, d),
      hidden |-> PathJoin(path, d) = TMP_INPUT_FILE_UPLOAD_DIR] : d \in directories}

\* listdir(request, path): val is <<directories_data, files_data>>; order
\* is the order in which the scan gives the file names.
ListDir(s, username, path, order) ==
    IF DsDirExists(s.fs, username, path)
    THEN With(ListFiles(Out(NoExc, {}, s), username, path, order), LAMBDA f :
            Out(NoExc,
                <<DirectoriesData(path, DsListUserDir(s.fs, username, path).val[1]), f.val>>,
                f.st))
    ELSE Out(ObjectDoesNotExist, None, s)

ScanOrders(s, username, path) ==
    IF DsDirExists(s.fs, username, path)
    THEN Orders(DsListUserDir(s.fs, username, path).val[2])
    ELSE {<< >>}

(***************************************************************************)
(* Actions: one call of a public function each                             *)
(***************************************************************************)
\* What getDataProduct gives a caller: a registered data product.
DataProducts == {catalog[i] : i \in DOMAIN catalog}

\* The call op(arg) by user, on data product dp, ended as o: the state is
\* the one o left, and the call is recorded.  A call that left everything as
\* it was ends the run: what can follow it can follow the state before it.
Done(op, user, arg, dp, o) ==
    /\ fs' = o.st.fs
    /\ catalog' = o.st.catalog
    /\ userFiles' = o.st.userFiles
    /\ opCount' = IF o.st = St THEN MaxOps ELSE opCount + 1
    /\ last' = [op |-> op, user |-> user, arg |-> arg, dp |-> dp,
                exc |-> o.exc, val |-> o.val, n |-> Len(catalog),
                ok |-> last.ok /\ o.exc = NoExc]
    /\ UNCHANGED <<procs, alone>>

Without(S, path) == {e \in S : e.full_path # path}

\* The entry of run for a save() that ended as o: what it returned, and
\* what was there before the call.
RunEntry(user, path, file_name, data, o) ==
    With(IF o.exc = NoExc THEN GetReplicaFilepath(o.val) ELSE None, LAMBDA full_path :
        [username |-> user, path |-> path, file_name |-> file_name,
         exc |-> o.exc, full_path |-> full_path, data |-> data,
         free |-> ~OsExists(fs, DsPath(user, PathJoin(path, GetValidFilename(file_name))).val),
         rawFree |-> ~OsExists(fs, DsPath(user, PathJoin(path, file_name)).val),
         fresh |-> ~OsExists(fs, full_path)])

SameRun(user, path, file_name) ==
    /\ run # << >>
    /\ run[1].username = user /\ run[1].path = path /\ run[1].file_name = file_name

SaveRecorded(user, path, file_name, data, o) ==
    /\ saved' = IF o.exc = NoExc
                THEN saved \cup {[data_product |-> o.val, data |-> data,
                                  full_path |-> GetReplicaFilepath(o.val)]}
                ELSE saved
    /\ run' = IF SameRun(user, path, file_name)
              THEN Append(run, RunEntry(user, path, file_name, data, o))
              ELSE <<RunEntry(user, path, file_name, data, o)>>

\* The file name save() and save_input_file() take from their arguments.
FileNameOf(file, name) == IF name # None THEN name ELSE BaseName(file.name)

\* The random strings with which a call by user that stores file_name in
\* directory path can end.
Draws(user, path, file_name) ==
    LastDraws(fs, UserLocation(user), PathJoin(path, GetValidFilename(file_name)),
              RandomStrings)

Save(user, path, file, name) ==
    /\ opCount < MaxOps
    /\ \E r \in Draws(user, path, FileNameOf(file, name)) :
        With(SaveFile(St, user, path, file, name, None, r), LAMBDA o :
            /\ Done("save", user, path, NoUri, o)
            /\ SaveRecorded(user, path, FileNameOf(file, name), file.data, o))

MoveFromFilepathCall(user, target_path) ==
    /\ opCount < MaxOps
    /\ \E r \in Draws(user, target_path, BaseName(ExternalFile)) :
        Done("move_from_filepath", user, target_path, NoUri,
             MoveFromFilepath(St, user, ExternalFile, target_path, None, None, r))
    /\ run' = << >>
    /\ UNCHANGED saved

SaveInputFileCall(user, file, name) ==
    /\ opCount < MaxOps
    /\ \E r \in Draws(user, TMP_INPUT_FILE_UPLOAD_DIR, BaseName(file.name)) :
        Done("save_input_file", user, name, NoUri,
             SaveInputFile(St, user, file, name, None, r))
    /\ run' = << >>
    /\ UNCHANGED saved

CopyInputFileCall(user, dp) ==
    /\ opCount < MaxOps
    /\ \E r \in Draws(user, TMP_INPUT_FILE_UPLOAD_DIR, dp.productName) :
        Done("copy_input_file", user, None, dp.productUri, CopyInputFile(St, user, dp, r))
    /\ run' = << >>
    /\ UNCHANGED saved

\* saved once the file of dp is gone, when the call that removes it ended as o.
Removed(dp, o) == IF o.exc = NoExc THEN Without(saved, GetReplicaFilepath(dp)) ELSE saved

MoveInputFileCall(user, dp, path) ==
    /\ opCount < MaxOps
    /\ \E r \in Draws(user, path, dp.productName) :
        With(MoveInputFile(St, user, dp, path, r), LAMBDA o :
            /\ Done("move_input_file", user, path, dp.productUri, o)
            /\ saved' = Removed(dp, o))
    /\ run' = << >>

DeleteCall(user, dp) ==
    /\ opCount < MaxOps
    /\ With(DeleteFile(St, dp), LAMBDA o :
        /\ Done("delete", user, None, dp.productUri, o)
        /\ saved' = Removed(dp, o))
    /\ run' = << >>

DeleteDirCall(user, path) ==
    /\ opCount < MaxOps
    /\ Done("delete_dir", user, path, NoUri, DeleteDir(St, user, path))
    /\ saved' = {e \in saved : IsFile(fs', e.full_path)}
    /\ run' = << >>

ListDirCall(user, path) ==
    /\ opCount < MaxOps
    /\ \E order \in ScanOrders(St, user, path) :
          Done("listdir", user, path, NoUri, ListDir(St, user, path, order))
    /\ run' = << >>
    /\ UNCHANGED saved

UserFileExistsCall(user, path) ==
    /\ opCount < MaxOps
    /\ Done("user_file_exists", user, path, NoUri, UserFileExists(St, user, path))
    /\ run' = << >>
    /\ UNCHANGED saved

IsInputFileCall(user, dp) ==
    /\ opCount < MaxOps
    /\ Done("is_input_file", user, None, dp.productUri,
            Out(NoExc, IsInputFile(St, user, dp), St))
    /\ run' = << >>
    /\ UNCHANGED saved

OpenFileCall(user, dp) ==
    /\ opCount < MaxOps
    /\ Done("open_file", user, None, dp.productUri, OpenFile(St, dp))
    /\ run' = << >>
    /\ UNCHANGED saved

CreateUserDirCall(user, path) ==
    /\ opCount < MaxOps
    /\ Done("create_user_dir", user, path, NoUri, CreateUserDir(St, user, path))
    /\ run' = << >>
    /\ UNCHANGED saved

\* Nothing is stored: the data store directory exists, no user has a root
\* yet, and one file lies outside the data store.
InitFs ==
    [q \in {<<SEP>>, GATEWAY_DATA_STORE_DIR, ExternalDir, ExternalFile} |->
        IF q = ExternalFile THEN FileNode(1) ELSE DirNode]

InitSt == [fs |-> InitFs, catalog |-> << >>, userFiles |-> {}]

NoCall == [op |-> "init", user |-> None, arg |-> None, dp |-> NoUri, exc |-> NoExc,
           val |-> None, n |-> 0, ok |-> TRUE]

Init ==
    /\ fs = InitFs
    /\ catalog = << >>
    /\ userFiles = {}
    /\ opCount = 0
    /\ last = NoCall
    /\ saved = {}
    /\ run = << >>
    /\ procs = << >>
    /\ alone = << >>

Next ==
    \/ \E user \in Users, path \in UserDirs, up \in Uploads : Save(user, path, up[1], up[2])
    \/ \E user \in Users, up \in Uploads : Save(user, EscapingDir, up[1], None)
    \/ \E user \in Users, path \in UserDirs : MoveFromFilepathCall(user, path)
    \/ \E user \in Users, up \in Uploads : SaveInputFileCall(user, up[1], up[2])
    \/ \E user \in Users, dp \in DataProducts : CopyInputFileCall(user, dp)
    \/ \E user \in Users, dp \in DataProducts, path \in UserDirs :
          MoveInputFileCall(user, dp, path)
    \/ \E user \in Users, dp \in DataProducts : DeleteCall(user, dp)
    \/ \E user \in Users, path \in UserDirs : DeleteDirCall(user, path)
    \/ \E user \in Users, path \in UserDirs : ListDirCall(user, path)
    \/ \E user \in Users, path \in UserDirs :
          UserFileExistsCall(user, PathJoin(path, <<"n", DOT, "t">>))
    \/ \E user \in Users, dp \in DataProducts : IsInputFileCall(user, dp)
    \/ \E user \in Users, dp \in DataProducts : OpenFileCall(user, dp)
    \/ \E user \in Users, path \in UserDirs : CreateUserDirCall(user, path)

Spec == Init /\ [][Next]_vars

(***************************************************************************)
(* Properties of runs of calls made one after the other                    *)
(***************************************************************************)
\* The paths a UserFiles row or a file can be at.
KnownPaths == DOMAIN fs \cup {row.file_path : row \in userFiles}

\* A file of user stored through the public functions is at full_path.
StoredFile(user, full_path) ==
    IsFile(fs, full_path) /\ Under(full_path, UserLocation(user))

\* C2: after any sequence of calls that all completed, UserFiles has exactly
\* one row for (user, full_path) when a stored file of user is at full_path,
\* and none when no file is there.
C2_CatalogConsistency ==
    last.ok =>
        \A user \in Users, full_path \in KnownPaths :
            Cardinality(UserFileRows(St, user, full_path))
                = IF StoredFile(user, full_path) THEN 1 ELSE 0

\* The path root/dir/sanitize(name) for the saves of run entry e.
DesiredPath(e) ==
    UserLocation(e.username) \o <<SEP>> \o e.path \o <<SEP>> \o GetValidFilename(e.file_name)

\* What holds of a run of saves whatever was there before the first.
LaterSaves ==
    /\ \A i \in DOMAIN run : run[i].exc = NoExc
    /\ \A i \in DOMAIN run : i > 1 =>
          /\ run[i].fresh
          /\ DirName(run[i].full_path) = DirName(DesiredPath(run[1]))
          /\ \A j \in 1..(i - 1) : run[j].full_path # run[i].full_path
    /\ \A i \in DOMAIN run :
          IsFile(fs, run[i].full_path) /\ fs[run[i].full_path].data = run[i].data

InUserDir == run # << >> /\ run[1].path \in UserDirs

\* C5: in a run of saves with the same desired name into the same directory
\* of one user, the first save, when nothing exists at dir/sanitize(name),
\* returns exactly root/dir/sanitize(name); every later save returns a
\* different path in that directory at which nothing existed; and after the
\* saves every returned path exists and holds its own content.
C5_SequentialSaves ==
    InUserDir =>
        /\ run[1].exc = NoExc /\ run[1].free => run[1].full_path = DesiredPath(run[1])
        /\ LaterSaves

\* C5 as stated: the first save returns root/dir/sanitize(name) when nothing
\* exists at dir/name, the name as the caller gave it.
C5_AsStated ==
    InUserDir =>
        /\ run[1].exc = NoExc /\ run[1].rawFree => run[1].full_path = DesiredPath(run[1])
        /\ LaterSaves

\* Three saves under one name, the first into a free place, with different
\* contents.
C5_Witness ==
    /\ InUserDir
    /\ Len(run) = 3
    /\ run[1].free
    /\ run[1].data # run[2].data

\* C7: open_file on the data product a save returned reads the bytes that
\* were saved, whatever was saved or deleted in between, as long as the file
\* itself has not been deleted or moved.
C7_RoundTrip ==
    \A e \in saved :
        With(OpenFile(St, e.data_product), LAMBDA o : o.exc = NoExc /\ o.val = e.data)

\* A file was saved, and a file stored later in its directory has been
\* deleted.
C7_Witness ==
    /\ last.op = "delete" /\ last.exc = NoExc
    /\ \E e \in saved :
          /\ DirName(e.full_path) = DirName(GetReplicaFilepath(catalog[last.dp]))
          /\ e.data_product.productUri < last.dp

\* C8: after delete(data_product) completed, nothing exists at the path of
\* the data product, UserFiles has no row for (owner, path), and the catalog
\* holds what it held, the record of the data product included.
C8_DeleteFile ==
    last.op = "delete" /\ last.exc = NoExc =>
        With(catalog[last.dp], LAMBDA data_product :
            /\ ~OsExists(fs, GetReplicaFilepath(data_product))
            /\ UserFileRows(St, data_product.ownerName,
                            GetReplicaFilepath(data_product)) = {}
            /\ Len(catalog) = last.n
            /\ data_product.productUri = last.dp)

\* A delete of a registered data product completed, and its file is gone.
C8_Witness ==
    /\ last.op = "delete" /\ last.exc = NoExc
    /\ last.dp \in DOMAIN catalog
    /\ ~OsExists(fs, GetReplicaFilepath(catalog[last.dp]))

\* C9: after move_input_file(data_product, path) completed, the file is no
\* longer at its source path and is at the returned path in directory path of
\* the acting user; UserFiles has no row for (owner, source path) and has a
\* row for (acting user, new path) with the URI of a record that was not in
\* the catalog before and differs from the URI of data_product.
C9_MoveInputFile ==
    last.op = "move_input_file" /\ last.exc = NoExc =>
        With2(catalog[last.dp], GetReplicaFilepath(last.val), LAMBDA source, full_path :
            /\ ~OsExists(fs, GetReplicaFilepath(source))
            /\ IsFile(fs, full_path)
            /\ DirName(full_path) = UserLocation(last.user) \o <<SEP>> \o last.arg
            /\ UserFileRows(St, source.ownerName, GetReplicaFilepath(source)) = {}
            /\ \E row \in UserFileRows(St, last.user, full_path) :
                  row.file_dpu = last.val.productUri
            /\ last.val.productUri > last.n
            /\ last.val.productUri \in DOMAIN catalog
            /\ catalog[last.val.productUri] = last.val
            /\ last.val.productUri # source.productUri)

\* A user moved another user's staged file into their own directory r.
C9_Witness ==
    /\ last.op = "move_input_file" /\ last.exc = NoExc
    /\ last.arg = ResultsDir
    /\ catalog[last.dp].ownerName # last.user

\* The file of data_product is in the staging area of user.
Staged(user, data_product) ==
    DirName(GetReplicaFilepath(data_product))
        = UserLocation(user) \o <<SEP>> \o TMP_INPUT_FILE_UPLOAD_DIR

MovedOutOfStaging ==
    /\ last.op = "move_input_file" /\ last.exc = NoExc
    /\ Staged(last.user, catalog[last.dp])
    /\ last.arg # TMP_INPUT_FILE_UPLOAD_DIR

\* C10: when move_input_file has moved a file from the acting user's staging
\* area to another directory, is_input_file is false of the data product it
\* returned and listdir of that directory lists the file among the files.
C10_MovedFileListed ==
    MovedOutOfStaging =>
        /\ ~IsInputFile(St, last.user, last.val)
        /\ \A order \in ScanOrders(St, last.user, last.arg) :
              \E f \in ListDir(St, last.user, last.arg, order).val[2] :
                  /\ f.name = BaseName(GetReplicaFilepath(last.val))
                  /\ f.path = PathJoin(last.arg, f.name)

\* A staged file was moved to directory r, where a file of that name was.
C10_Witness ==
    /\ MovedOutOfStaging
    /\ BaseName(GetReplicaFilepath(last.val)) # GetValidFilename(last.val.productName)

(***************************************************************************)
(* Path resolution on its own: _Datastore.path applied to one user and one *)
(* caller-supplied path, and the two questions asked of such a path,       *)
(* user_file_exists (_Datastore.exists) and dir_exists, in a store where   *)
(* each user has saved a file n in the root.                               *)
(***************************************************************************)
\* Segments of a caller-supplied path.
MaxSegs == 3
PathSegments == {<<DOT, DOT>>, <<DOT>>, <<"a">>, <<"a", "b">>, <<"d">>, <<"n">>}

RECURSIVE SegmentSeqs(_)
\* The sequences of at most n segments.
SegmentSeqs(n) ==
    IF n = 0 THEN {<< >>}
    ELSE With(SegmentSeqs(n - 1), LAMBDA shorter :
            shorter \cup {Append(q, seg) : q \in shorter, seg \in PathSegments})

\* Relative and absolute paths of at most MaxSegs segments.
PathInputs ==
    With({JoinWith(q, SEP) : q \in SegmentSeqs(MaxSegs)}, LAMBDA relative :
        relative \cup {<<SEP>> \o p : p \in relative})

\* The file each user has saved.
PathFile == [name |-> <<"n">>, data |-> 1]

\* The state after save(request, "", PathFile) by user a and by user b.
PathStart ==
    SaveFile(SaveFile(InitSt, <<"a">>, EMPTY, PathFile, None, None, <<"1">>).st,
             <<"b">>, EMPTY, PathFile, None, None, <<"1">>).st

InitPath ==
    /\ fs = PathStart.fs
    /\ catalog = PathStart.catalog
    /\ userFiles = PathStart.userFiles
    /\ opCount = 0
    /\ \E user \in Users, file_path \in PathInputs :
          last = [NoCall EXCEPT !.op = "input", !.user = user, !.arg = file_path]
    /\ saved = {}
    /\ run = << >>
    /\ procs = << >>
    /\ alone = << >>

\* _Datastore().path(username, file_path)
Resolve ==
    /\ last.op = "input"
    /\ With(DsPath(last.user, last.arg), LAMBDA d :
          last' = [last EXCEPT !.op = "path", !.exc = d.exc, !.val = d.val])
    /\ UNCHANGED <<fs, catalog, userFiles, opCount, saved, run, procs, alone>>

\* user_file_exists(request, file_path)
FileExistsAt ==
    /\ last.op = "input"
    /\ With(UserFileExists(St, last.user, last.arg), LAMBDA o :
          /\ fs' = o.st.fs
          /\ catalog' = o.st.catalog
          /\ userFiles' = o.st.userFiles
          /\ last' = [last EXCEPT !.op = "user_file_exists", !.exc = o.exc, !.val = o.val])
    /\ UNCHANGED <<opCount, saved, run, procs, alone>>

\* dir_exists(request, file_path)
DirExistsAt ==
    /\ last.op = "input"
    /\ last' = [last EXCEPT !.op = "dir_exists", !.val = DsDirExists(fs, last.user, last.arg)]
    /\ UNCHANGED <<fs, catalog, userFiles, opCount, saved, run, procs, alone>>

NextPath == Resolve \/ FileExistsAt \/ DirExistsAt

SpecPath == InitPath /\ [][NextPath]_vars

RECURSIVE Walk(_, _)
\* Where a walk over the segments segs ends that starts at the directory
\* whose names from the filesystem root are at: ".." goes to the parent (the
\* root being its own parent), "" and "." stay, a name goes to that child.
Walk(at, segs) ==
    IF segs = << >> THEN at
    ELSE IF segs[1] = EMPTY \/ segs[1] = <<DOT>> THEN Walk(at, Tail(segs))
    ELSE IF segs[1] = <<DOT, DOT>>
         THEN Walk(IF at = << >> THEN at ELSE SubSeq(at, 1, Len(at) - 1), Tail(segs))
    ELSE Walk(Append(at, segs[1]), Tail(segs))

\* The names from the filesystem root to the root of user.
RootNames(user) == <<Tail(GATEWAY_DATA_STORE_DIR), user>>

\* The names from the filesystem root to where file_path leads for user.
Leads(user, file_path) ==
    Walk(IF IsAbs(file_path) THEN << >> ELSE RootNames(user), Split(file_path, SEP))

StaysInRoot(user, file_path) ==
    With2(Leads(user, file_path), RootNames(user), LAMBDA at, root :
        Len(at) >= Len(root) /\ SubSeq(at, 1, Len(root)) = root)

\* C1: resolving a caller-supplied path for a user either fails with
\* SuspiciousFileOperation or returns an absolute path that is the user's
\* root or lies below it; it fails for every path that leads outside the
\* root, and for a path that stays inside it returns exactly the place the
\* path leads to (nothing is clamped).
C1_PathContainment ==
    last.op = "path" =>
        With(UserLocation(last.user), LAMBDA root :
            /\ last.exc \in {NoExc, SuspiciousFileOperation}
            /\ last.exc = NoExc =>
                  /\ IsAbs(last.val)
                  /\ last.val = root \/ StartsWith(last.val, root \o <<SEP>>)
                  /\ last.val = <<SEP>> \o JoinWith(Leads(last.user, last.arg), SEP)
            /\ StaysInRoot(last.user, last.arg) <=> last.exc = NoExc)

\* A path with ".." that leads into another user's root has been refused.
C1_Witness ==
    /\ last.op = "path"
    /\ last.user = <<"a">>
    /\ last.arg = <<DOT, DOT, SEP, "a", "b", SEP, "n">>
    /\ ~StaysInRoot(last.user, last.arg)
    /\ last.exc = SuspiciousFileOperation

(***************************************************************************)
(* Two requests of one user served at once, each storing a file under the  *)
(* same name in the same directory.  A call advances by its system calls   *)
(* and its catalog and database calls, in the order of the code.           *)
(***************************************************************************)
Procs == {1, 2}
RaceUser == <<"a">>
RaceFileName == <<"n", DOT, "t">>
\* The files outside the data store: the source of move_from_filepath, and
\* the temporary file of an upload django has spooled to disk.
ExternalFiles == <<ExternalFile, <<SEP, "y", SEP, "n", DOT, "t">>>>

\* Both external files exist.
RaceFs == OsWrite(OsMakedirs(InitFs, DirName(ExternalFiles[2])), ExternalFiles[2], 2)

\* What the requests start from: user a has made directory r and staged two
\* input files under the same name.
RaceStart ==
    With(CreateUserDir([fs |-> RaceFs, catalog |-> << >>, userFiles |-> {}],
                       RaceUser, ResultsDir).st, LAMBDA s1 :
        With(SaveInputFile(s1, RaceUser, [name |-> RaceFileName, data |-> 3],
                           None, None, <<RandomChars[1]>>).st, LAMBDA s2 :
            SaveInputFile(s2, RaceUser, [name |-> RaceFileName, data |-> 4],
                          None, None, <<RandomChars[1]>>).st))

\* save that registers the file once it is created, before its bytes are
\* written.
SaveStepsRegisterEarly == <<"name", "mkdir", "create", "register", "record", "write">>

\* The steps of save(request, path, file) for a file object read in chunks.
SaveSteps == <<"name", "mkdir", "create", "write", "register", "record">>
\* The same for an upload with temporary_file_path (TemporaryUploadedFile),
\* which FileSystemStorage._save moves into place with file_move_safe.
SaveTempSteps == <<"name", "mkdir", "access", "rename", "register", "record">>
\* The steps of move_input_file(request, data_product, path).
MoveInputFileSteps == <<"name", "access", "rename", "unrecord", "register", "record">>
\* The steps of move_from_filepath(request, source_path, target_path).
MoveFromFilepathSteps == <<"name", "mkdir", "access", "rename", "register", "record">>

StepsOf(q) ==
    IF q.op = "save" THEN (IF q.temp THEN SaveTempSteps ELSE SaveSteps)
    ELSE IF q.op = "move_input_file" THEN MoveInputFileSteps
    ELSE MoveFromFilepathSteps

\* The step after the one q is at.
AfterPc(q) ==
    With(StepsOf(q), LAMBDA steps :
        With(CHOOSE i \in DOMAIN steps : steps[i] = q.pc, LAMBDA i :
            IF i = Len(steps) THEN "done" ELSE steps[i + 1]))

\* The calls a request can be.
Calls == {[op |-> "save", temp |-> FALSE], [op |-> "save", temp |-> TRUE],
          [op |-> "move_input_file", temp |-> FALSE],
          [op |-> "move_from_filepath", temp |-> FALSE]}

\* Request p making call c: src is the file it moves (None for a stream),
\* data its bytes; target and full_path are the name it has picked; seen is
\* what os.access answered; written: its filesystem step has returned;
\* product_uri is what registerDataProduct answered.
NewProc(p, c) ==
    [op |-> c.op, temp |-> c.temp, pc |-> "name",
     src |-> IF c.op = "move_input_file" THEN GetReplicaFilepath(RaceStart.catalog[p])
             ELSE IF c.op = "move_from_filepath" \/ c.temp THEN ExternalFiles[p]
             ELSE None,
     data |-> IF c.op = "move_input_file" THEN 2 + p
              ELSE IF c.op = "move_from_filepath" \/ c.temp THEN p
              ELSE 10 + p,
     target |-> None, full_path |-> None, seen |-> FALSE, written |-> FALSE,
     product_uri |-> NoUri, exc |-> NoExc]

InitRace ==
    /\ fs = RaceStart.fs
    /\ catalog = RaceStart.catalog
    /\ userFiles = RaceStart.userFiles
    /\ opCount = 0
    /\ last = NoCall
    /\ saved = {}
    /\ run = << >>
    /\ alone = << >>
    /\ \E calls \in [Procs -> Calls] : procs = [p \in Procs |-> NewProc(p, calls[p])]

At(p, pc) == p \in DOMAIN procs /\ procs[p].pc = pc
Becomes(p, q) == procs' = [procs EXCEPT ![p] = q]
Unused == <<opCount, last, saved, run, alone>>

\* get_valid_name and get_available_name: of the desired name, or, when
\* _save retries after FileExistsError, of the name it tried.
AvailableName(p) ==
    /\ At(p, "name")
    /\ With2(UserLocation(RaceUser),
             IF procs[p].target = None
             THEN PathJoin(ResultsDir, GetValidFilename(RaceFileName))
             ELSE procs[p].target,
             LAMBDA location, name :
         \E r \in LastDraws(fs, location, name, RandomStrings) :
            With(GetAvailableName(fs, location, name, r).val, LAMBDA target :
                Becomes(p, [procs[p] EXCEPT
                    !.pc = AfterPc(procs[p]),
                    !.target = target,
                    !.full_path = DsPath(RaceUser, target).val])))
    /\ UNCHANGED <<fs, catalog, userFiles, Unused>>

\* The directory of the file: os.makedirs(directory, exist_ok=True) in _save;
\* dir_exists and create_user_dir in move_external.
Makedirs(p) ==
    /\ At(p, "mkdir")
    /\ With(IF procs[p].op = "save"
            THEN Ret(None, OsMakedirs(fs, DirName(procs[p].full_path)))
            ELSE IF ~DsDirExists(fs, RaceUser, ResultsDir)
                 THEN DsCreateUserDir(fs, RaceUser, ResultsDir)
            ELSE Ret(None, fs), LAMBDA d :
          /\ fs' = d.fs
          /\ Becomes(p, [procs[p] EXCEPT
                !.pc = IF d.exc = NoExc THEN AfterPc(procs[p]) ELSE "failed",
                !.exc = d.exc]))
    /\ UNCHANGED <<catalog, userFiles, Unused>>

\* os.open(full_path, O_WRONLY | O_CREAT | O_EXCL) in _save: an empty file,
\* or FileExistsError, after which _save picks a name again.
Create(p) ==
    /\ At(p, "create")
    /\ IF OsExists(fs, procs[p].full_path)
       THEN /\ Becomes(p, [procs[p] EXCEPT !.pc = "name"])
            /\ UNCHANGED fs
       ELSE /\ fs' = OsWrite(fs, procs[p].full_path, 0)
            /\ Becomes(p, [procs[p] EXCEPT !.pc = AfterPc(procs[p])])
    /\ UNCHANGED <<catalog, userFiles, Unused>>

\* The chunks are written to the file opened.  When a rename has put another
\* file in its place, the file opened is no longer at full_path.
Write(p) ==
    /\ At(p, "write")
    /\ fs' = IF IsFile(fs, procs[p].full_path) /\ fs[procs[p].full_path].data = 0
             THEN OsWrite(fs, procs[p].full_path, procs[p].data)
             ELSE fs
    /\ Becomes(p, [procs[p] EXCEPT !.pc = AfterPc(procs[p]), !.written = TRUE])
    /\ UNCHANGED <<catalog, userFiles, Unused>>

\* file_move_safe: os.access(new_file_name, os.F_OK)
Access(p) ==
    /\ At(p, "access")
    /\ Becomes(p, [procs[p] EXCEPT
          !.pc = AfterPc(procs[p]),
          !.seen = OsExists(fs, procs[p].full_path)])
    /\ UNCHANGED <<fs, catalog, userFiles, Unused>>

\* file_move_safe after os.access: os.rename when nothing was seen at the new
\* name, which replaces what is there by now; the copying fallback when
\* something was seen or the rename fails.  FileExistsError makes _save pick
\* a name again, and ends move and move_external.
Rename(p) ==
    /\ At(p, "rename")
    /\ With(IF ~procs[p].seen /\ RenameOk(fs, procs[p].src, procs[p].full_path)
            THEN Ret(None, OsRename(fs, procs[p].src, procs[p].full_path))
            ELSE MoveByCopy(fs, procs[p].src, procs[p].full_path), LAMBDA d :
          /\ fs' = d.fs
          /\ Becomes(p, [procs[p] EXCEPT
                !.pc = IF d.exc = NoExc THEN AfterPc(procs[p])
                       ELSE IF d.exc = FileExistsError /\ procs[p].op = "save" THEN "name"
                       ELSE "failed",
                !.written = d.exc = NoExc,
                !.exc = IF d.exc = FileExistsError /\ procs[p].op = "save"
                        THEN NoExc ELSE d.exc]))
    /\ UNCHANGED <<catalog, userFiles, Unused>>

\* _delete_data_product(data_product.ownerName, source_path) in move_input_file
Unrecord(p) ==
    /\ At(p, "unrecord")
    /\ userFiles' = DeleteDataProduct(St, RaceStart.catalog[p].ownerName,
                                      procs[p].src).userFiles
    /\ Becomes(p, [procs[p] EXCEPT !.pc = AfterPc(procs[p])])
    /\ UNCHANGED <<fs, catalog, Unused>>

\* The data product a call registers: _create_data_product, or
\* _copy_data_product in move_input_file.
ProductOf(p) ==
    IF procs[p].op = "move_input_file"
    THEN CopyDataProduct(RaceUser, RaceStart.catalog[p], procs[p].full_path)
    ELSE CreateDataProduct(fs, RaceUser, procs[p].full_path,
                           IF procs[p].op = "save" THEN None ELSE BaseName(procs[p].src),
                           None)

\* request.airavata_client.registerDataProduct in _register_data_product
Register(p) ==
    /\ At(p, "register")
    /\ catalog' = CatalogWith(catalog, ProductOf(p))
    /\ Becomes(p, [procs[p] EXCEPT !.pc = AfterPc(procs[p]),
                                   !.product_uri = Len(catalog) + 1])
    /\ UNCHANGED <<fs, userFiles, Unused>>

\* user_file_instance.save() in _register_data_product
Record(p) ==
    /\ At(p, "record")
    /\ userFiles' = UserFilesWith(userFiles, RaceUser, procs[p].full_path,
                                  procs[p].product_uri)
    /\ Becomes(p, [procs[p] EXCEPT !.pc = AfterPc(procs[p])])
    /\ UNCHANGED <<fs, catalog, Unused>>

NextRace ==
    \E p \in Procs :
        \/ AvailableName(p)
        \/ Makedirs(p)
        \/ Create(p)
        \/ Write(p)
        \/ Access(p)
        \/ Rename(p)
        \/ Unrecord(p)
        \/ Register(p)
        \/ Record(p)

SpecRace == InitRace /\ [][NextRace]_vars

(***************************************************************************)
(* Properties of two requests served at once                               *)
(***************************************************************************)
Ended(p) == procs[p].pc \in {"done", "failed"}
\* Request p returned, and the file at the path it returned holds its bytes.
Kept(p) ==
    /\ procs[p].pc = "done"
    /\ IsFile(fs, procs[p].full_path)
    /\ fs[procs[p].full_path].data = procs[p].data
\* Request p failed and the file it was to move is as it was.
Intact(p) ==
    /\ procs[p].pc = "failed"
    /\ IsFile(fs, procs[p].src)
    /\ fs[procs[p].src].data = procs[p].data

\* C3: when two saves by one user with the same desired name into the same
\* directory have ended, however their steps were interleaved, both have
\* returned, at two different paths, and each path holds the bytes of its
\* own save.
C3_ConcurrentSaves ==
    (\A p \in Procs : procs[p].op = "save" /\ Ended(p)) =>
        /\ \A p \in Procs : Kept(p)
        /\ procs[1].full_path # procs[2].full_path

Moves == {"move_input_file", "move_from_filepath"}

\* C4: when two moves into the same directory under the same desired name
\* have ended, however their steps were interleaved, no bytes are lost:
\* either both files are at different destination paths, or one move
\* failed with its source intact and the other file is at its destination.
C4_ConcurrentMoves ==
    (\A p \in Procs : procs[p].op \in Moves /\ Ended(p)) =>
        \/ (\A p \in Procs : Kept(p)) /\ procs[1].full_path # procs[2].full_path
        \/ \E p \in Procs : Intact(p) /\ \A q \in Procs \ {p} : Kept(q) \/ Intact(q)

\* Request p has finished its filesystem step, and a completely written
\* file is at the path it is about to register.
Complete(p) ==
    /\ procs[p].written
    /\ IsFile(fs, procs[p].full_path)
    /\ fs[procs[p].full_path].data # 0

\* C6: in save and move_from_filepath a request submits its record to the
\* catalog and puts its UserFiles row only after its filesystem step has
\* completely written the file at that path, the row after the submission;
\* and a request whose filesystem step fails submits no record, adds no row
\* and does nothing more.
C6_RegistrationFollowsWrite ==
    [][\A p \in Procs :
          procs[p].op \in {"save", "move_from_filepath"} /\ procs'[p] # procs[p] =>
              /\ catalog' # catalog \/ userFiles' # userFiles => Complete(p)
              /\ userFiles' # userFiles => procs[p].product_uri \in DOMAIN catalog
              /\ procs[p].pc # "failed"
              /\ procs'[p].pc = "failed" =>
                    /\ procs[p].product_uri = NoUri
                    /\ catalog' = catalog /\ userFiles' = userFiles]_vars

\* One request has registered the file it wrote, while the other, a
\* move_from_filepath, failed and left no record.
C6_Witness ==
    \E p \in Procs, q \in Procs :
        /\ procs[p].op \in {"save", "move_from_filepath"}
        /\ procs[p].pc = "done" /\ Complete(p)
        /\ \E row \in UserFileRows(St, RaceUser, procs[p].full_path) :
              row.file_dpu = procs[p].product_uri
        /\ procs[q].op = "move_from_filepath"
        /\ procs[q].pc = "failed" /\ procs[q].product_uri = NoUri

(***************************************************************************)
(* The calls that take a path, made by two users in any order: save,       *)
(* create_user_dir, delete_dir, listdir, user_file_exists and              *)
(* get_experiment_dir.  A job of a user can also leave an output file in    *)
(* one of the user's directories without a call of this module.  Next to   *)
(* the state, alone[u] is the state the calls of user u by themselves have *)
(* made; run is here the run of calls of get_experiment_dir, of listdir or  *)
(* of user_file_exists with the same arguments made one after the other.   *)
(***************************************************************************)
ProjectName == <<"p", "#">>
ExperimentName == <<"m">>
\* The directory get_experiment_dir takes first for these names.
ExperimentDir == PathJoin(GetValidFilename(ProjectName), GetValidFilename(ExperimentName))
\* Directories named by callers in these runs.
DirPaths == {ResultsDir, ExperimentDir}
\* The path argument of get_experiment_dir.
ExperimentPaths == {ExperimentDir, EscapingDir}
\* The file a job leaves: its name and its bytes.
Output == [name |-> <<"f", DOT, "t">>, data |-> 3]
OutputName == Output.name

\* The call op(arg) of user ended as o, and as a on the state the calls of
\* user alone have made.
DoneBy(op, user, arg, o, a) ==
    /\ fs' = o.st.fs
    /\ catalog' = o.st.catalog
    /\ userFiles' = o.st.userFiles
    /\ opCount' = opCount + 1
    /\ last' = [op |-> op, user |-> user, arg |-> arg, dp |-> NoUri,
                exc |-> o.exc, val |-> o.val, n |-> Len(catalog),
                ok |-> last.ok /\ o.exc = NoExc]
    /\ alone' = [alone EXCEPT ![user] = a.st]
    /\ UNCHANGED <<saved, procs>>

\* The entry of run for a call that ended as o: what it returned, the state
\* it found and the state it left.
DirEntry(form, user, arg, o) ==
    [form |-> form, username |-> user, arg |-> arg, exc |-> o.exc, val |-> o.val,
     before |-> St, st |-> o.st]

DirRecorded(form, user, arg, o) ==
    run' = IF run # << >> /\ run[1].form = form /\ run[1].username = user
                /\ run[1].arg = arg
           THEN Append(run, DirEntry(form, user, arg, o))
           ELSE <<DirEntry(form, user, arg, o)>>

ExperimentDirNamedCall(user) ==
    /\ opCount < MaxOps
    /\ \E r \in LastDraws(fs, UserLocation(user), ExperimentDir, RandomStrings) :
        With2(GetExperimentDirNamed(St, user, ProjectName, ExperimentName, r),
              GetExperimentDirNamed(alone[user], user, ProjectName, ExperimentName, r),
              LAMBDA o, a :
                /\ DoneBy("get_experiment_dir", user, <<ProjectName, ExperimentName>>, o, a)
                /\ DirRecorded("named", user, <<ProjectName, ExperimentName>>, o))

ExperimentDirAtCall(user, path) ==
    /\ opCount < MaxOps
    /\ With2(GetExperimentDirAt(St, user, path), GetExperimentDirAt(alone[user], user, path),
             LAMBDA o, a :
                /\ DoneBy("get_experiment_dir", user, path, o, a)
                /\ DirRecorded("path", user, path, o))

SaveBy(user, path, file, name) ==
    /\ opCount < MaxOps
    /\ \E r \in Draws(user, path, FileNameOf(file, name)) :
        DoneBy("save", user, path, SaveFile(St, user, path, file, name, None, r),
               SaveFile(alone[user], user, path, file, name, None, r))
    /\ run' = << >>

CreateUserDirBy(user, path) ==
    /\ opCount < MaxOps
    /\ DoneBy("create_user_dir", user, path, CreateUserDir(St, user, path),
              CreateUserDir(alone[user], user, path))
    /\ run' = << >>

DeleteDirBy(user, path) ==
    /\ opCount < MaxOps
    /\ DoneBy("delete_dir", user, path, DeleteDir(St, user, path),
              DeleteDir(alone[user], user, path))
    /\ run' = << >>

ListDirBy(user, path) ==
    /\ opCount < MaxOps
    /\ \E order \in ScanOrders(St, user, path) :
          With(ListDir(St, user, path, order), LAMBDA o :
            /\ DoneBy("listdir", user, path, o, ListDir(alone[user], user, path, order))
            /\ DirRecorded("listdir", user, path, o))

UserFileExistsBy(user, path) ==
    /\ opCount < MaxOps
    /\ With(UserFileExists(St, user, path), LAMBDA o :
          /\ DoneBy("user_file_exists", user, path, o, UserFileExists(alone[user], user, path))
          /\ DirRecorded("user_file_exists", user, path, o))

\* The state after a job of username has written its output file in
\* directory path of the user, having made the directory if it was not
\* there.
JobOutput(s, username, path) ==
    Out(NoExc, None,
        [s EXCEPT !.fs = OsWrite(OsMakedirs(s.fs, DsPath(username, path).val),
                                 DsPath(username, PathJoin(path, OutputName)).val,
                                 Output.data)])

JobWrites(user, path) ==
    /\ opCount < MaxOps
    /\ ~OsExists(fs, DsPath(user, PathJoin(path, OutputName)).val)
    /\ DoneBy("job", user, path, JobOutput(St, user, path), JobOutput(alone[user], user, path))
    /\ run' = << >>

InitDirs ==
    /\ fs = InitFs
    /\ catalog = << >>
    /\ userFiles = {}
    /\ opCount = 0
    /\ last = NoCall
    /\ saved = {}
    /\ run = << >>
    /\ procs = << >>
    /\ alone = [u \in Users |-> InitSt]

NextDirs ==
    \E user \in Users :
        \/ ExperimentDirNamedCall(user)
        \/ \E path \in ExperimentPaths : ExperimentDirAtCall(user, path)
        \/ \E path \in DirPaths, u \in Uploads : SaveBy(user, path, u[1], u[2])
        \/ \E path \in DirPaths : CreateUserDirBy(user, path)
        \/ \E path \in DirPaths : DeleteDirBy(user, path)
        \/ \E path \in DirPaths : ListDirBy(user, path)
        \/ \E path \in DirPaths : UserFileExistsBy(user, PathJoin(path, OutputName))
        \/ \E path \in DirPaths : JobWrites(user, path)

SpecDirs == InitDirs /\ [][NextDirs]_vars

(***************************************************************************)
(* Properties of get_experiment_dir                                        *)
(***************************************************************************)
\* The directory of the project, in the root of username.
ProjectDir(username) == DsPath(username, GetValidFilename(ProjectName)).val

\* C11: get_experiment_dir called one after the other with the same project
\* and experiment names and no path returns every time: the directories
\* returned are pairwise distinct, each lies below the directory named by
\* the sanitized project name, and each exists when its call returns.
C11_DistinctExperimentDirs ==
    run # << >> /\ run[1].form = "named" =>
        /\ \A i \in DOMAIN run :
              /\ run[i].exc = NoExc
              /\ Under(run[i].val, ProjectDir(run[i].username))
              /\ IsDir(run[i].st.fs, run[i].val)
        /\ \A i, j \in DOMAIN run : i # j => run[i].val # run[j].val

\* The call was made MaxOps times.
C11_Witness ==
    /\ Len(run) = MaxOps /\ run[1].form = "named"
    /\ \A i, j \in DOMAIN run : i # j => run[i].val # run[j].val

\* The directories on disk.
Dirs(f) == {p \in DOMAIN f : f[p].kind = "dir"}

\* The calls of run all ended as the first did and left the directories the
\* first left.
SameAsFirst ==
    \A i \in DOMAIN run :
        /\ run[i].exc = run[1].exc
        /\ run[i].val = run[1].val
        /\ Dirs(run[i].st.fs) = Dirs(run[1].st.fs)

\* C12: get_experiment_dir with a path ensures a directory and is
\* idempotent: called again with the same path it returns the same
\* directory and leaves the directories on disk that the first call left.
\* (With names and no path every call makes a new directory, C11.)
C12_EnsureDirIdempotent ==
    run # << >> /\ run[1].form = "path" => SameAsFirst

\* C12 as stated, for both forms of the call.
C12_AsStated ==
    run # << >> => SameAsFirst

\* The first call with the path made the directory, the second found it.
C12_Witness ==
    /\ Len(run) >= 2 /\ run[1].form = "path"
    /\ run[1].exc = NoExc /\ run[2].exc = NoExc
    /\ ~OsExists(run[1].before.fs, run[1].val) /\ run[2].st = run[2].before
    /\ run[2].val = run[1].val

(***************************************************************************)
(* Properties of single calls                                              *)
(***************************************************************************)
\* The path data_product locates is a file directly in the directory of
\* input files of username.
StagedBy(username, data_product) ==
    With(GetReplicaFilepath(data_product), LAMBDA path :
        /\ IsFile(fs, path)
        /\ DirName(path) = UserLocation(username) \o <<SEP>> \o TMP_INPUT_FILE_UPLOAD_DIR)

\* C13: is_input_file(request, data_product) returns True exactly when the
\* path data_product locates is a file in the root of the user making the
\* call and its directory, relative to that root, is "tmp"; for a file
\* staged by its owner it returns False to every other user.
C13_IsInputFile ==
    last.op = "is_input_file" => last.val = StagedBy(last.user, catalog[last.dp])

\* C13 as stated: the root is that of the owner of data_product, whoever
\* makes the call.
C13_AsStated ==
    last.op = "is_input_file" =>
        last.val = StagedBy(catalog[last.dp].ownerName, catalog[last.dp])

\* A user asked about the staged file of another, and one about their own.
C13_Witness ==
    /\ last.op = "is_input_file"
    /\ last.user # catalog[last.dp].ownerName
    /\ StagedBy(catalog[last.dp].ownerName, catalog[last.dp])
    /\ ~last.val

\* The name argument of save_input_file and save: absent, or given.
GivenNames == {None, <<"m", DOT, "t">>}

\* C14: save_input_file(request, file, name, content_type) does what
\* save(request, "tmp", file, name, content_type) does: from the same state,
\* for every file and every name, given or absent, the two end alike, with
\* the file at the same path, the same productName and the same UserFiles
\* rows.
C14_SaveInputFileIsSave ==
    \A user \in Users, u \in Uploads, name \in GivenNames, r \in RandomStrings :
        With2(SaveInputFile(St, user, u[1], name, None, r),
              SaveFile(St, user, TMP_INPUT_FILE_UPLOAD_DIR, u[1], name, None, r),
              LAMBDA i, o :
                /\ i.exc = o.exc
                /\ i.exc = NoExc =>
                      /\ GetReplicaFilepath(i.val) = GetReplicaFilepath(o.val)
                      /\ i.val.productName = o.val.productName
                      /\ i.st.fs = o.st.fs
                      /\ i.st.userFiles = o.st.userFiles)


(***************************************************************************)
(* Properties of questions about a path                                    *)
(***************************************************************************)
\* The place file_path leads to for user, as an absolute path.
PlaceOf(user, file_path) == <<SEP>> \o JoinWith(Leads(user, file_path), SEP)

\* C15: _Datastore.exists and dir_exists never raise on a path that leaves
\* the root: for every path that path resolution refuses they answer False
\* (user_file_exists, which asks exists, returns None), and the filesystem,
\* the catalog and UserFiles are as before.
C15_RefusedPathsDoNotExist ==
    /\ last.op = "user_file_exists" /\ ~StaysInRoot(last.user, last.arg) =>
          /\ last.exc = NoExc /\ last.val = NoUri
          /\ ~DsExists(fs, last.user, last.arg)
          /\ St = PathStart
    /\ last.op = "dir_exists" /\ ~StaysInRoot(last.user, last.arg) =>
          /\ last.val = FALSE
          /\ St = PathStart

\* A user asked for the file another user has, by a path that leaves the
\* root, and was told there is none.
C15_Witness ==
    /\ last.op = "user_file_exists"
    /\ ~StaysInRoot(last.user, last.arg)
    /\ IsFile(fs, PlaceOf(last.user, last.arg))
    /\ last.val = NoUri


(***************************************************************************)
(* Properties of the calls of two users                                    *)
(***************************************************************************)
\* What user has in state s: the root of user with all below it, and the
\* UserFiles rows of user in the order they were saved, each with the data
\* product it refers to.  Product URIs are left out: the catalog gives them
\* out, and which ones a user gets depends on what others registered.
ViewOf(s, user) ==
    With(UserLocation(user), LAMBDA root :
        With({row \in s.userFiles : row.username = user}, LAMBDA rows :
            [files |-> [p \in {q \in DOMAIN s.fs : q = root \/ Under(q, root)} |-> s.fs[p]],
             rows |-> {[file_path |-> row.file_path,
                        nth |-> Cardinality({o \in rows : o.file_dpu < row.file_dpu}),
                        data_product |-> [s.catalog[row.file_dpu] EXCEPT !.productUri = NoUri]] :
                       row \in rows}]))

\* C16: the calls of different users that take a path (save,
\* create_user_dir, delete_dir, listdir, user_file_exists,
\* get_experiment_dir) do not touch each other: in whatever order the calls
\* of two users are made, each user's root and UserFiles rows are what the
\* calls of that user alone leave, and nothing else is added to the
\* filesystem, the catalog or UserFiles -- so every order leaves the same
\* state, up to the product URIs the catalog gave out.
C16_UsersIndependent ==
    /\ \A user \in Users : ViewOf(St, user) = ViewOf(alone[user], user)
    /\ \A p \in DOMAIN fs :
          \/ p \in DOMAIN InitFs /\ fs[p] = InitFs[p]
          \/ \E user \in Users : p \in DOMAIN ViewOf(St, user).files
    /\ \A row \in userFiles : row.username \in Users
    /\ Cardinality(userFiles) = Len(catalog)
    /\ \A i \in DOMAIN catalog : \E row \in userFiles : row.file_dpu = i

\* Calls of both users have been made in turn, and each has stored a file:
\* the product URIs are not those either would have got alone.
C16_Witness ==
    /\ \A user \in Users :
          /\ ViewOf(St, user).rows # {}
          /\ St # alone[user]
    /\ \E row \in userFiles : \E user \in Users :
          /\ row.username = user
          /\ row.file_dpu \notin DOMAIN alone[user].catalog


\* The product URIs of the UserFiles rows of user for full_path in state s.
UrisOf(s, user, full_path) == {row.file_dpu : row \in UserFileRows(s, user, full_path)}

\* What listdir or user_file_exists reported in run entry e: the set of
\* <<full path of a file, product URI>>.
Reported(e) ==
    IF e.form = "listdir"
    THEN {<<DsPath(e.username, f.path).val, f.data_product_uri>> : f \in e.val[2]}
    ELSE IF e.val = NoUri THEN {}
    ELSE {<<DsPath(e.username, e.arg).val, e.val>>}

\* The files run entry e was asked about.
AskedFiles(e) ==
    IF e.form = "listdir"
    THEN {p \in DOMAIN e.before.fs :
            IsFile(e.before.fs, p) /\ DirName(p) = DsPath(e.username, e.arg).val}
    ELSE {p \in {DsPath(e.username, e.arg).val} : IsFile(e.before.fs, p)}

\* C17: after listdir(request, dir), or user_file_exists on a file, every
\* file asked about has a UserFiles row and its product URI is reported; a
\* file that had a row before keeps the URI it had; and the same call made
\* again, with nothing in between, submits nothing to the catalog, adds no
\* row and reports the same product URI for every file.
C17_EnsureRegisteredIdempotent ==
    run # << >> /\ run[1].form \in {"listdir", "user_file_exists"} /\ run[1].exc = NoExc =>
        \A i \in DOMAIN run :
            With(run[i], LAMBDA e :
                /\ e.exc = NoExc
                /\ {r[1] : r \in Reported(e)} = AskedFiles(e)
                /\ \A r \in Reported(e) :
                      /\ r[2] \in UrisOf(e.st, e.username, r[1])
                      /\ UrisOf(e.before, e.username, r[1]) # {} =>
                            r[2] \in UrisOf(e.before, e.username, r[1])
                /\ i > 1 => e.st = e.before /\ Reported(e) = Reported(run[1]))

\* The first listdir registered a file that had no row, the second reported
\* it again.
C17_Witness ==
    /\ Len(run) >= 2 /\ run[1].form = "listdir" /\ run[2].exc = NoExc
    /\ Len(run[1].st.catalog) > Len(run[1].before.catalog)
    /\ Reported(run[2]) # {}


(***************************************************************************)
(* _determine_content_type on its own, applied to one file and one         *)
(* content_type argument.                                                  *)
(***************************************************************************)
\* The content_type argument: absent, or a type.
ContentTypes == {None, TextPlain, OctetStream, ImagePng}
\* The names of the file: no extension, and one extension for each answer
\* of mimetypes.guess_type.
TypedNames == {<<"n">>, <<"n", DOT, "t">>, <<"n", DOT, "b">>, <<"n", DOT, "p">>}
\* The bytes of the file: odd ones decode as text.
TypedData == 1..4

\* The filesystem where user has the file name with bytes data in ResultsDir.
TypedFs(user, name, data) ==
    OsWrite(OsMakedirs(InitFs, DsPath(user, ResultsDir).val),
            DsPath(user, PathJoin(ResultsDir, name)).val, data)

InitType ==
    /\ \E user \in Users, name \in TypedNames, data \in TypedData, content_type \in ContentTypes :
          /\ fs = TypedFs(user, name, data)
          /\ last = [NoCall EXCEPT !.op = "input", !.user = user,
                                   !.arg = <<DsPath(user, PathJoin(ResultsDir, name)).val,
                                             content_type>>]
    /\ catalog = << >>
    /\ userFiles = {}
    /\ opCount = 0
    /\ saved = {}
    /\ run = << >>
    /\ procs = << >>
    /\ alone = << >>

\* _determine_content_type(full_path, content_type)
Determine ==
    /\ last.op = "input"
    /\ last' = [last EXCEPT !.op = "content_type",
                            !.val = DetermineContentType(fs, last.arg[1], last.arg[2])]
    /\ UNCHANGED <<fs, catalog, userFiles, opCount, saved, run, procs, alone>>

NextType == Determine

SpecType == InitType /\ [][NextType]_vars

\* The type that is given: the one the caller passed, else the one guessed
\* from the extension, else None.
GivenType(content_type, guessed) == IF content_type # None THEN content_type ELSE guessed

\* The first bytes of the file at full_path decode as text.
DecodesAsText(full_path) == fs[full_path].data \in {1, 3}

\* C18: _determine_content_type answers, for every content_type argument,
\* guessed type and file: the type given (the caller's, else the guessed
\* one) when there is one and it is not "application/octet-stream";
\* otherwise "text/plain" when the first 1 KiB decode as text, whoever gave
\* "application/octet-stream"; otherwise the type given, which is
\* "application/octet-stream" or None.
C18_ContentType ==
    last.op = "content_type" =>
        With(GivenType(last.arg[2], GuessType(last.arg[1])), LAMBDA given :
            last.val = IF given \notin {None, OctetStream} THEN given
                       ELSE IF DecodesAsText(last.arg[1]) THEN TextPlain
                       ELSE given)

\* C18 as stated: the caller's type when one is passed, whatever it is; else
\* the guessed type when there is one and it is not
\* "application/octet-stream"; else "text/plain" when the first 1 KiB decode
\* as text; else None.
C18_AsStated ==
    last.op = "content_type" =>
        With(GuessType(last.arg[1]), LAMBDA guessed :
            last.val = IF last.arg[2] # None THEN last.arg[2]
                       ELSE IF guessed \notin {None, OctetStream} THEN guessed
                       ELSE IF DecodesAsText(last.arg[1]) THEN TextPlain
                       ELSE None)

\* The caller passed "application/octet-stream" for a file that decodes as
\* text, and the answer is "text/plain".
C18_Witness ==
    /\ last.op = "content_type"
    /\ last.arg[2] = OctetStream
    /\ DecodesAsText(last.arg[1])
    /\ last.val = TextPlain


\* C19: copy_input_file(request, data_product) leaves the original as it
\* was: the product URI, owner and located path of data_product, the file
\* there and its UserFiles rows are unchanged; and the data product returned
\* shares no object that can be changed with data_product, is owned by the
\* user making the call, has another product URI and one replica location,
\* the path of the new file.
C19_CopyLeavesOriginal ==
    \A user \in Users, data_product \in DataProducts, r \in RandomStrings :
        With2(CopyInputFile(St, user, data_product, r), GetReplicaFilepath(data_product),
              LAMBDA o, path :
                o.exc = NoExc =>
                    /\ o.st.catalog[data_product.productUri] = data_product
                    /\ o.st.fs[path] = fs[path]
                    /\ UserFileRows(o.st, data_product.ownerName, path)
                          = UserFileRows(St, data_product.ownerName, path)
                    /\ o.val.ownerName = user
                    /\ o.val.productUri # data_product.productUri
                    /\ Len(o.val.replicaLocations) = 1
                    /\ GetReplicaFilepath(o.val) # path
                    /\ IsFile(o.st.fs, GetReplicaFilepath(o.val))
                    /\ ~OsExists(fs, GetReplicaFilepath(o.val))
                    /\ o.val.shares = {})


\* data_product has one replica location, in the gateway data store, and
\* it locates full_path.
LocatesOnly(data_product, full_path) ==
    /\ Len(data_product.replicaLocations) = 1
    /\ data_product.replicaLocations[1].replicaLocationCategory = GATEWAY_DATA_STORE
    /\ GetReplicaFilepath(data_product) = full_path

\* C20: every data product returned by a call or submitted to the catalog
\* has exactly one replica location, in the gateway data store, and locates
\* the path where the call put the file, the path of its UserFiles row; and
\* in every reachable state the path located by a data product with a
\* UserFiles row is the path of an existing file.
C20_OneReplicaAtFile ==
    /\ \A row \in userFiles : LocatesOnly(catalog[row.file_dpu], row.file_path)
    /\ \A i \in DOMAIN catalog : LocatesOnly(catalog[i], GetReplicaFilepath(catalog[i]))
    /\ \A e \in saved : LocatesOnly(e.data_product, e.full_path)
    /\ last.op \in {"save", "move_from_filepath", "save_input_file", "copy_input_file",
                    "move_input_file"} /\ last.exc = NoExc =>
          /\ LocatesOnly(last.val, GetReplicaFilepath(last.val))
          /\ IsFile(fs, GetReplicaFilepath(last.val))
    /\ \A row \in userFiles : IsFile(fs, GetReplicaFilepath(catalog[row.file_dpu]))


(***************************************************************************)
(* delete when the database can fail: files are saved, directories are     *)
(* deleted, and delete is called on registered data products, the query of *)
(* _delete_data_product answering or raising.                              *)
(***************************************************************************)
\* What a delete of data_product finds: whether a regular file is at the
\* path, the UserFiles rows of the path, the filesystem and UserFiles, and
\* whether the database will fail.
Found(data_product, db_error) ==
    With(GetReplicaFilepath(data_product), LAMBDA path :
        [path |-> path, file |-> IsFile(fs, path),
         rows |-> UserFileRows(St, data_product.ownerName, path),
         fs |-> fs, userFiles |-> userFiles, db_error |-> db_error])

DeleteCallDb(user, dp, db_error) ==
    /\ opCount < MaxOps
    /\ With(DeleteFileDb(St, dp, db_error), LAMBDA o :
        /\ Done("delete", user, Found(dp, db_error), dp.productUri, o)
        /\ saved' = Removed(dp, o))
    /\ run' = << >>

NextDelete ==
    \E user \in Users :
        \/ \E path \in UserDirs, u \in Uploads : Save(user, path, u[1], u[2])
        \/ \E path \in UserDirs : DeleteDirCall(user, path)
        \/ \E dp \in DataProducts, db_error \in BOOLEAN : DeleteCallDb(user, dp, db_error)

SpecDelete == Init /\ [][NextDelete]_vars

\* C21: delete stops at the first failure and takes nothing back.  When no
\* regular file is at the path, ObjectDoesNotExist reaches the caller, the
\* rows are not touched (the database is not asked, whether it would fail
\* or not) and nothing is changed.  When the file is deleted and the
\* database then fails, that error reaches the caller, the file stays
\* deleted and the rows of (owner, path) are all still there.
C21_DeleteFailStop ==
    last.op = "delete" =>
        With2(last.arg, catalog[last.dp].ownerName, LAMBDA found, owner :
            /\ ~found.file =>
                  /\ last.exc = ObjectDoesNotExist
                  /\ fs = found.fs
                  /\ userFiles = found.userFiles
            /\ found.file /\ found.db_error =>
                  /\ last.exc = DatabaseError
                  /\ ~OsExists(fs, found.path)
                  /\ found.rows # {}
                  /\ UserFileRows(St, owner, found.path) = found.rows
                  /\ userFiles = found.userFiles
            /\ found.file /\ ~found.db_error => last.exc = NoExc
            /\ Len(catalog) = last.n)

\* The file was deleted, the database failed, and the row is still there.
C21_Witness ==
    /\ last.op = "delete" /\ last.exc = DatabaseError
    /\ last.arg.file /\ ~OsExists(fs, last.arg.path)
    /\ UserFileRows(St, catalog[last.dp].ownerName, last.arg.path) # {}


(***************************************************************************)
(* get_available_name on its own, in the storage of one user: a name is    *)
(* asked for, what is answered is made on disk (a file, as move does, or a *)
(* directory, as get_experiment_dir does), and then a name is asked for    *)
(* again, for the answer and for the first name.                           *)
(***************************************************************************)
NameUser == <<"a">>
\* The names asked for.
DesiredNames == {PathJoin(ResultsDir, <<"n", DOT, "t">>), PathJoin(ResultsDir, <<"m">>)}
\* What can be in the directory before: any of the desired names and of
\* their alternatives.
TakenNames == DesiredNames \cup {AlternativeTo(p, r) : p \in DesiredNames, r \in RandomStrings}

\* The filesystem where the names in taken are files of NameUser.
RECURSIVE NameFs(_)
NameFs(taken) ==
    IF taken = {} THEN OsMakedirs(InitFs, DsPath(NameUser, ResultsDir).val)
    ELSE With(CHOOSE p \in taken : TRUE, LAMBDA p :
            OsWrite(NameFs(taken \ {p}), DsPath(NameUser, p).val, 1))

InitName ==
    /\ \E taken \in SUBSET TakenNames : fs = NameFs(taken)
    /\ \E p \in DesiredNames :
          last = [NoCall EXCEPT !.op = "input", !.user = NameUser, !.arg = p]
    /\ catalog = << >>
    /\ userFiles = {}
    /\ opCount = 0
    /\ saved = {}
    /\ run = << >>
    /\ procs = << >>
    /\ alone = << >>

\* The name get_available_name answers for name in filesystem f, with any
\* of the random strings its last round can draw.
AvailableNames(f, name) ==
    {GetAvailableName(f, UserLocation(NameUser), name, r).val :
        r \in LastDraws(f, UserLocation(NameUser), name, RandomStrings)}

\* get_available_name(p)
AskName ==
    /\ last.op = "input"
    /\ \E q \in AvailableNames(fs, last.arg) :
          last' = [last EXCEPT !.op = "name",
                               !.val = [q |-> q, idle |-> AvailableNames(fs, q)]]
    /\ UNCHANGED <<fs, catalog, userFiles, opCount, saved, run, procs, alone>>

\* The name answered is made on disk: a file or a directory.
MakeName ==
    /\ last.op = "name"
    /\ \E node \in {FileNode(1), DirNode} :
          fs' = [q \in DOMAIN fs \cup {DsPath(NameUser, last.val.q).val} |->
                    IF q \in DOMAIN fs THEN fs[q] ELSE node]
    /\ last' = [last EXCEPT !.op = "made"]
    /\ UNCHANGED <<catalog, userFiles, opCount, saved, run, procs, alone>>

\* get_available_name(q) and get_available_name(p), q being on disk
AskAgain ==
    /\ last.op = "made"
    /\ \E again \in AvailableNames(fs, last.val.q), first \in AvailableNames(fs, last.arg) :
          last' = [last EXCEPT !.op = "again",
                               !.val = [q |-> last.val.q, idle |-> last.val.idle,
                                        again |-> again, first |-> first]]
    /\ UNCHANGED <<fs, catalog, userFiles, opCount, saved, run, procs, alone>>

NextName == AskName \/ MakeName \/ AskAgain

SpecName == InitName /\ [][NextName]_vars

\* C22: get_available_name answers its own answer q only as long as nothing
\* is at q.  Once q is on disk, get_available_name(q) is another name, in
\* the directory of q, at which nothing is; and get_available_name(p)
\* answers the same as get_available_name(q) only when p was free, q then
\* being p.
C22_AvailableNameAfterMade ==
    /\ last.op \in {"name", "again"} => last.val.idle = {last.val.q}
    /\ last.op = "again" =>
          /\ last.val.again # last.val.q
          /\ ~OsExists(fs, DsPath(NameUser, last.val.again).val)
          /\ DirName(last.val.again) = DirName(last.val.q)
          /\ last.val.again = last.val.first => last.val.q = last.arg

\* C22 as stated: once q is on disk, get_available_name(q) answers q again,
\* or what get_available_name(p) answers now.
C22_AsStated ==
    last.op = "again" =>
        \/ last.val.again = last.val.q
        \/ last.val.again \in AvailableNames(fs, last.arg)

\* p was taken, q is an alternative of p made on disk, and the name for q is
\* an alternative of q.
C22_Witness ==
    /\ last.op = "again"
    /\ last.val.q # last.arg
    /\ OsExists(fs, DsPath(NameUser, last.val.q).val)
    /\ last.val.again \notin {last.val.q, last.val.first}

=============================================================================
